---- MODULE Spec2Model ----
(***************************************************************************)
(* Model of the ML service of HassamGani/xai (services/ml/src): the model  *)
(* registry and artifact store written by the trainers' save_model, the    *)
(* serving process's model cache (_models), model resolution               *)
(* (get_deployed_model, load_model) and the correction endpoint            *)
(* predict_correction with its logit-space correction step; the training   *)
(* entry points train_and_save with their data gates, cross-validation     *)
(* splits and reports; post feature extraction; the usefulness endpoint    *)
(* predict_post_usefulness; concurrent first loads of one cache key.       *)
(***************************************************************************)
EXTENDS Integers, FiniteSets, Sequences, TLC

VARIABLES files, dirs, registry, _models, clock, served, ret,
          reports, now, handlers

vars == <<files, dirs, registry, _models, clock, served, ret, reports, now, handlers>>

(***************************************************************************)
(* Values.                                                                 *)
(***************************************************************************)

\* Python's None.
None == [none |-> TRUE]

\* The two model names of the service (app.py:250, app.py:355).
Names == {"gbdt_correction", "post_usefulness"}

\* Version strings a caller or a trainer may use.  "latest" is an ordinary
\* string to both of them.
Versions == {"v1", "latest"}

\* A falsy version argument (None or ""): `if not version` (app.py:126).
NoVersion == ""

\* Bound of the exploration: the number of save_model runs that write a
\* file or a registry row.
MaxSaves == 2

\* Bound of the exploration: the wall clock of the training host, in
\* seconds, runs from 0 to MaxNow.
MaxNow == 1

\* datetime.now().strftime("%Y%m%d_%H%M%S") at second t.
Stamp(t) ==
    CASE t = 0 -> "20250101_000000"
      [] t = 1 -> "20250101_000001"
      [] t = 2 -> "20250101_000002"
      [] OTHER -> "20250101_000003"

Stamps == {Stamp(t) : t \in 0..MaxNow}

\* File stems (model_path.stem) that can occur in the store.
Stems == Versions \cup Stamps

\* Request handlers of the serving process that may run load_model at the
\* same time.
Handlers == {"h1", "h2"}

\* A handler that is not inside load_model.
Idle == [pc |-> "idle"]

(***************************************************************************)
(* Floats.  A probability or a corrected value is a rational n/d in lowest *)
(* terms; NaN is 0/0.  Request probabilities are given in thousandths.     *)
(***************************************************************************)

RECURSIVE GCD(_, _)
GCD(a, b) ==
    IF b = 0 THEN a ELSE GCD(b, a % b)

Abs(x) ==
    IF x < 0 THEN -x ELSE x

Rat(n, d) ==
    LET g == GCD(Abs(n), Abs(d)) IN [n |-> n \div g, d |-> d \div g]

NaN == [n |-> 0, d |-> 0]

Zero == [n |-> 0, d |-> 1]

One == [n |-> 1, d |-> 1]

IsNaN(a) ==
    a.d = 0

\* a + b on floats (NaN propagates); the common denominator is the lcm.
RAdd(a, b) ==
    IF IsNaN(a) \/ IsNaN(b) THEN NaN
    ELSE LET g == GCD(a.d, b.d)
             l == (a.d \div g) * b.d
         IN Rat(a.n * (l \div a.d) + b.n * (l \div b.d), l)

\* a / b on numpy floats: 0/0 is nan (a warning, no exception), x/0 is inf
\* and never arises here since every corrected value is at most the total.
RDiv(a, b) ==
    IF IsNaN(a) \/ IsNaN(b) THEN NaN
    ELSE IF b.n = 0 THEN NaN
    ELSE LET g1 == GCD(a.n, b.n)
             g2 == GCD(a.d, b.d)
             n1 == IF g1 = 0 THEN 0 ELSE (a.n \div g1) * (b.d \div g2)
             d1 == IF g1 = 0 THEN 1 ELSE (a.d \div g2) * (b.n \div g1)
         IN Rat(n1, d1)

RECURSIVE Pow2(_)
Pow2(k) ==
    IF k = 0 THEN 1 ELSE 2 * Pow2(k - 1)

\* Clip bounds of app.py:298, in thousandths.
ClipLo == 10

ClipHi == 990

Thousand == 1000

\* float64: exp overflows to inf above 2^1024, and 1 + y rounds to 1 for
\* y < 2^-53.  An odds ratio of a clipped probability lies in [1/99, 99],
\* within 2^-7 .. 2^7.
FloatMaxExp == 1024

FloatMantissa == 53

OddsBits == 7

\* A scalar correction, the value model.predict returns: c = e * ln 2 for an
\* integer e, or nan.
Corr(e) == [cls |-> "fin", e |-> e]

CorrNaN == [cls |-> "nan", e |-> 0]

\* prob = max(0.01, min(0.99, prob))
clip(pm) ==
    LET lo == IF ClipHi < pm THEN ClipHi ELSE pm
    IN IF lo < ClipLo THEN ClipLo ELSE lo

\* logit = np.log(prob / (1 - prob)), kept as the odds whose log it is.
logit(pm) ==
    Rat(pm, Thousand - pm)

\* 1 / (1 + np.exp(-(logit + correction))) for logit = ln(odds):
\* exp(-(ln odds + e ln 2)) = (1/odds) * 2^-e, inf once it passes 2^1024
\* (the quotient is then 0.0), and lost in 1 + y once below 2^-53 (the
\* quotient is then 1.0).
logistic(odds, c) ==
    IF c.cls = "nan" THEN NaN
    ELSE IF -c.e >= FloatMaxExp + OddsBits THEN Zero
    ELSE IF c.e >= FloatMantissa + OddsBits THEN One
    ELSE IF c.e >= 0
         THEN Rat(odds.n * Pow2(c.e), odds.n * Pow2(c.e) + odds.d)
         ELSE Rat(odds.n, odds.n + odds.d * Pow2(-c.e))

RECURSIVE SumValues(_, _)
SumValues(f, S) ==
    IF S = {} THEN Zero
    ELSE LET k == CHOOSE x \in S : TRUE
         IN RAdd(f[k], SumValues(f, S \ {k}))

\* total = sum(corrected.values()); corrected = {k: v / total ...}
Renormalize(corrected) ==
    LET total == SumValues(corrected, DOMAIN corrected)
    IN [k \in DOMAIN corrected |-> RDiv(corrected[k], total)]

\* app.py:295-305: the corrected mapping of the request's probabilities.
ApplyCorrection(probs, c) ==
    Renormalize([k \in DOMAIN probs |-> logistic(logit(clip(probs[k])), c)])

\* The request's probabilities as the floats they are.
AsFloats(probs) ==
    [k \in DOMAIN probs |-> Rat(probs[k], Thousand)]

\* confidence=0.8 of the applied correction (app.py:319).
ConfApplied == Rat(4, 5)

(***************************************************************************)
(* The response model.  CorrectionResponse.explain is Dict[str, float]:    *)
(* pydantic accepts a value that is a float or a string that parses as     *)
(* one, and raises ValidationError on any other string.                    *)
(***************************************************************************)

Str(s) == [t |-> "str", s |-> s, f |-> Zero]

Float(x) == [t |-> "float", s |-> "", f |-> x]

\* Strings that parse as a float, with their value.
NumericStrings == {"0"}

ParseFloat(s) ==
    Zero

IsFloatLike(v) ==
    v.t = "float" \/ v.s \in NumericStrings

Coerce(v) ==
    IF v.t = "float" THEN v ELSE Float(ParseFloat(v.s))

Returned(v) == [raised |-> FALSE, exc |-> "", value |-> v]

Raised(e) == [raised |-> TRUE, exc |-> e, value |-> None]

CorrectionResponse(probs, version, confidence, explain) ==
    IF \A k \in DOMAIN explain : IsFloatLike(explain[k])
    THEN Returned([probabilities_corrected |-> probs,
                   model_version |-> version,
                   confidence |-> confidence,
                   explain |-> [k \in DOMAIN explain |-> Coerce(explain[k])]])
    ELSE Raised("ValidationError")

(***************************************************************************)
(* The artifact store and the registry.                                    *)
(***************************************************************************)

Paths == Names \X Stems

NoFile == [exists |-> FALSE, blob |-> 0, mtime |-> 0, loadable |-> FALSE]

\* model_dir.glob("*.pkl")
ModelFiles(name) ==
    {v \in Stems : files[<<name, v>>].exists}

\* max(model_files, key=lambda p: p.stat().st_mtime)
NewestVersion(name) ==
    CHOOSE v \in ModelFiles(name) :
        \A w \in ModelFiles(name) : files[<<name, w>>].mtime <= files[<<name, v>>].mtime

\* os.path.exists(model_path) in the serving process.
PathExists(path) ==
    path.host = "local" /\ files[<<path.name, path.version>>].exists

\* cache_key = f"{name}:{version or 'latest'}"
CacheKey(name, version) ==
    <<name, IF version = NoVersion THEN "latest" ELSE version>>

CacheKeys == Names \X (Stems \cup {"latest"})

\* The registry rows with name = name and deployed = true.
DeployedRecords(name) ==
    {r \in registry : r.name = name /\ r.deployed}

\* A wrong sort direction: the oldest deployed row instead of the newest.
OldestRecord(recs) ==
    CHOOSE r \in recs : \A q \in recs : r.created_at <= q.created_at

\* .order("created_at", desc=True).limit(1)
NewestRecord(recs) ==
    CHOOSE r \in recs : \A q \in recs : q.created_at <= r.created_at

\* get_deployed_model: None when the registry is unreachable (the except
\* branch), when no row is deployed, when the newest deployed row's path is
\* empty or missing, or when joblib.load of it raises (caught as well).
get_deployed_model(name, reach) ==
    IF ~reach \/ DeployedRecords(name) = {} THEN None
    ELSE LET model_info == NewestRecord(DeployedRecords(name))
             f == files[<<model_info.path.name, model_info.path.version>>]
         IN IF PathExists(model_info.path) /\ f.loadable
            THEN [model |-> f.blob, version |-> model_info.version,
                  model_id |-> model_info.model_id]
            ELSE None

\* load_model without its cache lookup: every call goes to the store.
load_model_uncached(name, version) ==
    LET cache_key == CacheKey(name, version)
        v == IF version = NoVersion THEN NewestVersion(name) ELSE version
        f == files[<<name, v>>]
        absent == [raised |-> FALSE, value |-> None, cache |-> _models]
    IN IF name \notin dirs THEN absent
       ELSE IF version = NoVersion /\ ModelFiles(name) = {} THEN absent
       ELSE IF ~f.exists THEN absent
       ELSE IF ~f.loadable
            THEN [raised |-> TRUE, value |-> None, cache |-> _models]
       ELSE LET entry == [model |-> f.blob, version |-> v]
            IN [raised |-> FALSE, value |-> entry,
                cache |-> [_models EXCEPT ![cache_key] = entry]]

\* load_model that remembers a missing artifact: the key is cached with the
\* absent result.
load_model_remembering(name, version) ==
    LET cache_key == CacheKey(name, version)
        got == load_model_uncached(name, version)
    IN IF _models[cache_key] # None
       THEN [raised |-> FALSE,
             value |-> IF "failed" \in DOMAIN _models[cache_key] THEN None
                       ELSE _models[cache_key],
             cache |-> _models]
       ELSE IF ~got.raised /\ got.value = None
       THEN [raised |-> FALSE, value |-> None,
             cache |-> [_models EXCEPT ![cache_key] = [failed |-> TRUE]]]
       ELSE got

\* load_model that answers a version-less call from the store every time.
load_model_newest(name, version) ==
    LET cache_key == CacheKey(name, version)
    IN IF version # NoVersion /\ _models[cache_key] # None
       THEN [raised |-> FALSE, value |-> _models[cache_key], cache |-> _models]
       ELSE load_model_uncached(name, version)

\* load_model: the value returned (or the exception of joblib.load) and
\* the cache afterwards.
load_model(name, version) ==
    LET cache_key == CacheKey(name, version)
        v == IF version = NoVersion THEN NewestVersion(name) ELSE version
        f == files[<<name, v>>]
        absent == [raised |-> FALSE, value |-> None, cache |-> _models]
    IN IF _models[cache_key] # None
       THEN [raised |-> FALSE, value |-> _models[cache_key], cache |-> _models]
       ELSE IF name \notin dirs THEN absent
       ELSE IF version = NoVersion /\ ModelFiles(name) = {} THEN absent
       ELSE IF ~f.exists THEN absent
       ELSE IF ~f.loadable
            THEN [raised |-> TRUE, value |-> None, cache |-> _models]
       ELSE LET entry == [model |-> f.blob, version |-> v]
            IN [raised |-> FALSE, value |-> entry,
                cache |-> [_models EXCEPT ![cache_key] = entry]]

(***************************************************************************)
(* Inputs of the serving calls.                                            *)
(***************************************************************************)

\* current_probabilities of a correction request, in thousandths: a mapping
\* the clip of line 298 would alter.  (The correction step is explored over
\* a grid of mappings under SpecLogit.)
RequestProbs ==
    { ("A" :> 1 @@ "B" :> 999) }

\* What the model does inside the try block of predict_correction: every
\* step succeeds and predict returns the correction c, or a step raises an
\* exception whose str() is msg.
Predicts(c) == [ok |-> TRUE, c |-> c, msg |-> ""]

Fails(msg) == [ok |-> FALSE, c |-> CorrNaN, msg |-> msg]

ModelOutcomes ==
    { Predicts(Corr(1)), Fails("feature mismatch"), Fails("0") }

\* explain of an applied correction: feature name -> gain importance.
Importances == ("K" :> Float(One))

(***************************************************************************)
(* Initial state: empty store, empty registry, empty cache.                *)
(***************************************************************************)

Init ==
    /\ files = [p \in Paths |-> NoFile]
    /\ dirs = {}
    /\ registry = {}
    /\ _models = [k \in CacheKeys |-> None]
    /\ clock = 0
    /\ served = [n \in Names |-> NoVersion]
    /\ ret = [op |-> "init"]
    /\ reports = {}
    /\ now = 0
    /\ handlers = [h \in Handlers |-> Idle]

(***************************************************************************)
(* Training side: save_model.                                              *)
(***************************************************************************)

\* A row inserted as already deployed.
RegistryRowDeployed(model_id, name, version, host) ==
    [model_id |-> model_id, name |-> name, version |-> version,
     path |-> [host |-> host, name |-> name, version |-> version],
     approved |-> FALSE, deployed |-> TRUE, created_at |-> model_id]

\* The row save_model inserts.
RegistryRow(model_id, name, version, host) ==
    [model_id |-> model_id, name |-> name, version |-> version,
     path |-> [host |-> host, name |-> name, version |-> version],
     approved |-> FALSE, deployed |-> FALSE, created_at |-> model_id]

\* save_model with the registry insert outside any try block: a failed
\* insert propagates, and the file written before it is removed again.
save_model_rollback(name, version, dump, db) ==
    LET model_id == clock + 1
        written == [exists |-> TRUE, blob |-> model_id, mtime |-> model_id,
                    loadable |-> dump = "ok"]
    IN /\ clock < MaxSaves
       /\ clock' = IF dump = "none" THEN clock ELSE model_id
       /\ dirs' = dirs \cup {name}
       /\ files' = IF dump = "none" THEN files
                   ELSE IF dump = "ok" /\ ~db
                        THEN [files EXCEPT ![<<name, version>>] = NoFile]
                   ELSE [files EXCEPT ![<<name, version>>] = written]
       /\ registry' = IF dump = "ok" /\ db
                      THEN registry \cup {RegistryRow(model_id, name, version, "local")}
                      ELSE registry
       /\ ret' = [op |-> "save_model", raised |-> dump # "ok" \/ ~db,
                  value |-> IF dump = "ok" /\ db THEN [model_id |-> model_id] ELSE None]
       /\ UNCHANGED <<_models, served>>

\* save_model that inserts the registry record before it writes the file.
save_model_record_first(name, version, dump, db) ==
    LET model_id == clock + 1
        written == [exists |-> TRUE, blob |-> model_id, mtime |-> model_id,
                    loadable |-> dump = "ok"]
    IN /\ clock < MaxSaves
       /\ clock' = model_id
       /\ dirs' = dirs \cup {name}
       /\ files' = IF dump = "none" THEN files
                   ELSE [files EXCEPT ![<<name, version>>] = written]
       /\ registry' = IF dump # "ok" \/ db
                      THEN registry \cup {RegistryRow(model_id, name, version, "local")}
                      ELSE registry
       /\ ret' = [op |-> "save_model", raised |-> dump # "ok",
                  value |-> IF dump = "ok" THEN [model_id |-> model_id] ELSE None]
       /\ UNCHANGED <<_models, served>>

\* save_model on the serving host.  dump is what joblib.dump does: "ok"
\* writes the file, "partial" raises leaving a truncated file, "none" raises
\* before the file is created.  db tells whether the registry insert (and
\* get_supabase_client before it) succeeds.
save_model(name, version, dump, db) ==
    LET model_id == clock + 1
        written == [exists |-> TRUE, blob |-> model_id, mtime |-> model_id,
                    loadable |-> dump = "ok"]
    IN /\ clock < MaxSaves
       /\ clock' = IF dump = "none" THEN clock ELSE model_id
       /\ dirs' = dirs \cup {name}
       /\ files' = IF dump = "none" THEN files
                   ELSE [files EXCEPT ![<<name, version>>] = written]
       /\ registry' = IF dump = "ok" /\ db
                      THEN registry \cup {RegistryRow(model_id, name, version, "local")}
                      ELSE registry
       /\ ret' = [op |-> "save_model", raised |-> dump # "ok",
                  value |-> IF dump = "ok" THEN [model_id |-> model_id] ELSE None]
       /\ UNCHANGED <<_models, served>>

\* train_gbdt.save_model, called with name="gbdt_correction".
GbdtSaveModel(version, dump, db) ==
    /\ save_model("gbdt_correction", version, dump, db)
    /\ UNCHANGED <<reports, now, handlers>>

\* train_post_model.save_model.
PostSaveModel(version, dump, db) ==
    /\ save_model("post_usefulness", version, dump, db)
    /\ UNCHANGED <<reports, now, handlers>>

\* save_model run to completion on another host: the file goes to that
\* host's store, the row to the shared registry.
RemoteSaveModel(name, version) ==
    /\ clock < MaxSaves
    /\ clock' = clock + 1
    /\ registry' = registry \cup {RegistryRow(clock + 1, name, version, "remote")}
    /\ UNCHANGED <<files, dirs, _models, served, ret, reports, now, handlers>>

\* The external promotion process toggles a row's deployment flag.
SetDeployed(r, flag) ==
    /\ r \in registry
    /\ r.deployed # flag
    /\ registry' = (registry \ {r}) \cup {[r EXCEPT !.deployed = flag]}
    /\ UNCHANGED <<files, dirs, _models, clock, served, ret, reports, now, handlers>>

(***************************************************************************)
(* Training entry points: train_and_save of both trainers.                 *)
(***************************************************************************)

\* config.min_resolved_markets_gbdt
min_resolved_markets_gbdt == 50

\* The literal of `if len(posts_df) < 100` in train_post_model.train_and_save.
MinLabeledPosts == 100

\* What load_training_data finds in config.data_dir: whether
\* resolved_markets.parquet exists and how many rows it has.
GbdtData ==
    { [markets_file |-> FALSE, markets |-> 0],
      [markets_file |-> TRUE, markets |-> 0],
      [markets_file |-> TRUE, markets |-> 49],
      [markets_file |-> TRUE, markets |-> 50] }

\* What load_post_training_data finds: whether training_posts.parquet
\* exists, whether it has a moved_toward_truth column, and how many rows
\* are left after dropna on that column.
PostData ==
    { [posts_file |-> FALSE, labels |-> FALSE, labeled |-> 0],
      [posts_file |-> TRUE, labels |-> FALSE, labeled |-> 0],
      [posts_file |-> TRUE, labels |-> TRUE, labeled |-> 0],
      [posts_file |-> TRUE, labels |-> TRUE, labeled |-> 99],
      [posts_file |-> TRUE, labels |-> TRUE, labeled |-> 100] }

\* train_and_save ends early: it prints the reason and returns None
\* (raised = FALSE), or an exception leaves it (raised = TRUE).  Nothing is
\* written.
EndsEarly(raised, reason) ==
    /\ ret' = [op |-> "train_and_save", raised |-> raised, value |-> None,
               reason |-> reason]
    /\ UNCHANGED <<files, dirs, registry, _models, clock, served, reports, now, handlers>>

\* The version train_and_save saves under: the argument, or the current
\* second's timestamp when the argument is falsy.
VersionOrStamp(version) ==
    IF version = NoVersion THEN Stamp(now) ELSE version

\* train_gbdt.train_and_save.  Training itself is taken to complete; dump
\* and db are the outcomes of save_model's joblib.dump and registry insert.
\* The report is written after save_model has returned.
GbdtTrainAndSave(version, data, dump, db) ==
    IF ~data.markets_file
    THEN EndsEarly(FALSE, "Run ETL first")
    ELSE IF data.markets < min_resolved_markets_gbdt
    THEN EndsEarly(FALSE, "Not enough resolved markets")
    ELSE /\ save_model("gbdt_correction", VersionOrStamp(version), dump, db)
         /\ reports' = IF dump = "ok"
                       THEN reports \cup {<<"gbdt_report", VersionOrStamp(version)>>}
                       ELSE reports
         /\ UNCHANGED <<now, handlers>>

\* train_post_model.train_and_save.  Only FileNotFoundError is caught around
\* load_post_training_data; its ValueError for a missing label column is
\* not.
PostTrainAndSave(version, data, dump, db) ==
    IF ~data.posts_file
    THEN EndsEarly(FALSE, "No training data found")
    ELSE IF ~data.labels
    THEN EndsEarly(TRUE, "ValueError: Training data missing 'moved_toward_truth' labels")
    ELSE IF data.labeled < MinLabeledPosts
    THEN EndsEarly(FALSE, "Not enough labeled posts for training")
    ELSE /\ save_model("post_usefulness", VersionOrStamp(version), dump, db)
         /\ reports' = IF dump = "ok"
                       THEN reports \cup {<<"post_model_report", VersionOrStamp(version)>>}
                       ELSE reports
         /\ UNCHANGED <<now, handlers>>

\* A second passes on the training host's wall clock.
Tick ==
    /\ now < MaxNow
    /\ now' = now + 1
    /\ UNCHANGED <<files, dirs, registry, _models, clock, served, ret, reports, handlers>>

(***************************************************************************)
(* Serving side.                                                           *)
(***************************************************************************)

\* A direct load_model(name, version) call.
LoadModel(name, version) ==
    LET got == load_model(name, version)
    IN /\ _models' = got.cache
       /\ ret' = [op |-> "load_model", raised |-> got.raised, value |-> got.value]
       /\ UNCHANGED <<files, dirs, registry, clock, served, reports, now, handlers>>

\* The body of predict_correction after model resolution.
CorrectionBody(model_info, probs, out) ==
    IF model_info = None
    THEN CorrectionResponse(AsFloats(probs), "none", Zero,
                            "message" :> Str("No model available yet"))
    ELSE IF out.ok
    THEN CorrectionResponse(ApplyCorrection(probs, out.c), model_info.version,
                            ConfApplied, Importances)
    ELSE CorrectionResponse(AsFloats(probs), model_info.version, Zero,
                            "error" :> Str(out.msg))

\* POST /v1/predict/correction.
PredictCorrection(probs, reach, out) ==
    LET dep == get_deployed_model("gbdt_correction", reach)
        got == load_model("gbdt_correction", NoVersion)
        model_info == IF dep # None THEN dep ELSE got.value
        resp == IF dep = None /\ got.raised THEN Raised("joblib.load")
                ELSE CorrectionBody(model_info, probs, out)
        tier == IF dep # None THEN "deployed"
                ELSE IF got.raised THEN "raised"
                ELSE IF got.value = None THEN "none" ELSE "local"
    IN /\ _models' = IF dep = None THEN got.cache ELSE _models
       /\ ret' = [op |-> "predict_correction", tier |-> tier,
                  model_info |-> IF tier = "raised" THEN None ELSE model_info,
                  raised |-> resp.raised, value |-> resp.value]
       /\ served' = IF ~resp.raised /\ model_info # None
                    THEN [served EXCEPT !["gbdt_correction"] = model_info.version]
                    ELSE served
       /\ UNCHANGED <<files, dirs, registry, clock, reports, now, handlers>>

\* The serving process restarts: the module-level cache is empty again.
Restart ==
    /\ _models' = [k \in CacheKeys |-> None]
    /\ served' = [n \in Names |-> NoVersion]
    /\ ret' = [op |-> "restart"]
    /\ handlers' = [h \in Handlers |-> Idle]
    /\ UNCHANGED <<files, dirs, registry, clock, reports, now>>

\* The outcomes of one save_model run: of joblib.dump, and of the registry
\* insert that follows a completed dump.
SaveOutcomes ==
    { <<"ok", TRUE>>, <<"ok", FALSE>>, <<"partial", FALSE>>, <<"none", FALSE>> }

Next ==
    \/ \E v \in Versions, o \in SaveOutcomes : GbdtSaveModel(v, o[1], o[2])
    \/ \E v \in Versions, o \in SaveOutcomes : PostSaveModel(v, o[1], o[2])
    \/ \E n \in Names, v \in Versions : RemoteSaveModel(n, v)
    \/ \E r \in registry, flag \in BOOLEAN : SetDeployed(r, flag)
    \/ \E n \in Names, v \in Versions \cup {NoVersion} : LoadModel(n, v)
    \/ \E p \in RequestProbs, reach \in BOOLEAN, out \in ModelOutcomes :
           PredictCorrection(p, reach, out)
    \/ Restart

Spec == Init /\ [][Next]_vars

\* The correction model's life alone: its trainer, the promotion process
\* and the serving process resolving and applying it.
NextCorrection ==
    \/ \E v \in Versions, o \in SaveOutcomes : GbdtSaveModel(v, o[1], o[2])
    \/ \E v \in Versions : RemoteSaveModel("gbdt_correction", v)
    \/ \E r \in registry, flag \in BOOLEAN : SetDeployed(r, flag)
    \/ \E v \in Versions \cup {NoVersion} : LoadModel("gbdt_correction", v)
    \/ \E p \in RequestProbs, reach \in BOOLEAN, out \in ModelOutcomes :
           PredictCorrection(p, reach, out)
    \/ Restart

SpecCorrection == Init /\ [][NextCorrection]_vars

\* The registry and the store under both trainers and the promotion
\* process, without a serving process.
NextTraining ==
    \/ \E v \in Versions, o \in SaveOutcomes : GbdtSaveModel(v, o[1], o[2])
    \/ \E v \in Versions, o \in SaveOutcomes : PostSaveModel(v, o[1], o[2])
    \/ \E n \in Names, v \in Versions : RemoteSaveModel(n, v)
    \/ \E r \in registry, flag \in BOOLEAN : SetDeployed(r, flag)

SpecTraining == Init /\ [][NextTraining]_vars

\* The service left to itself: trainers and serving process, and nobody
\* promoting a model.
NextNoPromotion ==
    \/ \E v \in Versions, o \in SaveOutcomes : GbdtSaveModel(v, o[1], o[2])
    \/ \E v \in Versions, o \in SaveOutcomes : PostSaveModel(v, o[1], o[2])
    \/ \E n \in Names, v \in Versions : RemoteSaveModel(n, v)
    \/ \E v \in Versions \cup {NoVersion} : LoadModel("gbdt_correction", v)
    \/ \E p \in RequestProbs, reach \in BOOLEAN, out \in ModelOutcomes :
           PredictCorrection(p, reach, out)
    \/ Restart

SpecNoPromotion == Init /\ [][NextNoPromotion]_vars

\* The training orchestrator run repeatedly on the serving host, with
\* explicit and with generated versions, and correction requests in between.
NextOrchestrator ==
    \/ \E v \in Versions \cup {NoVersion}, d \in GbdtData, o \in SaveOutcomes :
           GbdtTrainAndSave(v, d, o[1], o[2])
    \/ \E v \in Versions \cup {NoVersion}, d \in PostData, o \in SaveOutcomes :
           PostTrainAndSave(v, d, o[1], o[2])
    \/ Tick
    \/ \E p \in RequestProbs, reach \in BOOLEAN, out \in ModelOutcomes :
           PredictCorrection(p, reach, out)

SpecOrchestrator == Init /\ [][NextOrchestrator]_vars

(***************************************************************************)
(* The correction step alone (app.py:294-305), over a grid of probability  *)
(* mappings and corrections.                                               *)
(***************************************************************************)

Outcomes == {"A", "B", "C"}

\* Thousandths: exact 0 and 1, values outside [0.01, 0.99] and outside
\* [0, 1], and ordinary ones.
ProbGrid == {-200, 0, 1, 250, 500, 999, 1000, 1500}

ProbMappings ==
    UNION { [S -> ProbGrid] : S \in (SUBSET Outcomes) \ {{}} }

\* Finite corrections e * ln 2: small ones, and magnitudes around 760.
CorrGrid ==
    { Corr(e) : e \in {-1100, -2, -1, 0, 1, 2, 1100} }

InitLogit ==
    /\ files = [p \in Paths |-> NoFile]
    /\ dirs = {}
    /\ registry = {}
    /\ _models = [k \in CacheKeys |-> None]
    /\ clock = 0
    /\ served = [n \in Names |-> NoVersion]
    /\ reports = {}
    /\ now = 0
    /\ handlers = [h \in Handlers |-> Idle]
    /\ \E p \in ProbMappings, c \in CorrGrid :
           ret = [op |-> "request", probs |-> p, c |-> c]

\* Lines 295-305 applied to the request's mapping and the predicted c.
CorrectionStep ==
    /\ ret.op = "request"
    /\ ret' = [op |-> "corrected", probs |-> ret.probs, c |-> ret.c,
               corrected |-> ApplyCorrection(ret.probs, ret.c)]
    /\ UNCHANGED <<files, dirs, registry, _models, clock, served, reports, now, handlers>>

SpecLogit == InitLogit /\ [][CorrectionStep]_vars

(***************************************************************************)
(* Market-level cross-validation of the correction model                   *)
(* (train_gbdt.py:211-230 and 84-93).                                      *)
(***************************************************************************)

\* n_splits of train_correction_model.
NSplits == 3

\* Bound of the exploration: the largest number of resolved markets in a
\* training set (the smallest is NSplits + 1, below which TimeSeriesSplit
\* refuses to split).
MaxMarkets == 5

\* resolved_at of a market without a resolution timestamp (None / NaT).
NaT == 0

\* Resolution timestamps.
ResolvedAts == {NaT, 1, 2, 3}

\* The market-level dataset in the order of resolved_markets.parquet: row i
\* is market i with its resolved_at.
MarketDatasets ==
    UNION { [1..n -> ResolvedAts] : n \in (NSplits + 1)..MaxMarkets }

\* Ascending order of sort_values: missing values last.
SortsBefore(a, b) ==
    a.resolved_at # NaT /\ (b.resolved_at = NaT \/ a.resolved_at < b.resolved_at)

\* The dataset left in file order.
unsorted(dataset) ==
    dataset

\* dataset.sort_values("resolved_at")
sort_values(dataset) ==
    SortSeq(dataset, SortsBefore)

\* TimeSeriesSplit(n_splits).split(X): fold k validates on the k-th of the
\* last n_splits blocks of n \div (n_splits + 1) rows and trains on all
\* rows before that block.  Positions are 1-based.
TimeSeriesSplit(n) ==
    LET test_size == n \div (NSplits + 1)
        test_start(k) == n - (NSplits - k + 1) * test_size
    IN [k \in 1..NSplits |->
           [train |-> 1..test_start(k),
            val |-> (test_start(k) + 1)..(test_start(k) + test_size)]]

InitMarkets ==
    /\ files = [p \in Paths |-> NoFile]
    /\ dirs = {}
    /\ registry = {}
    /\ _models = [k \in CacheKeys |-> None]
    /\ clock = 0
    /\ served = [n \in Names |-> NoVersion]
    /\ reports = {}
    /\ now = 0
    /\ handlers = [h \in Handlers |-> Idle]
    /\ \E d \in MarketDatasets :
           ret = [op |-> "markets",
                  dataset |-> [i \in DOMAIN d |-> [market_id |-> i, resolved_at |-> d[i]]]]

\* train_and_save from the sort to the folds of train_correction_model.
MarketCrossValidation ==
    /\ ret.op = "markets"
    /\ ret' = [op |-> "market_cv", dataset |-> ret.dataset,
               X |-> sort_values(ret.dataset),
               folds |-> TimeSeriesSplit(Len(ret.dataset))]
    /\ UNCHANGED <<files, dirs, registry, _models, clock, served, reports, now, handlers>>

SpecMarketCV == InitMarkets /\ [][MarketCrossValidation]_vars

(***************************************************************************)
(* Post-level cross-validation of the usefulness model                     *)
(* (train_post_model.py:20-51 and 64-73).                                  *)
(***************************************************************************)

\* n_splits of train_post_usefulness_model.
GroupNSplits == 3

\* Bound of the exploration: the largest number of rows of
\* training_posts.parquet.
MaxPosts == 5

\* Market identifiers of training posts.
PostMarkets == 1..4

\* training_posts.parquet: row i is post i, of some market, with or without
\* a moved_toward_truth label.
PostFiles ==
    UNION { [1..n -> [market_id : PostMarkets, labeled : BOOLEAN]] :
              n \in GroupNSplits..MaxPosts }

\* df.dropna(subset=["moved_toward_truth"]): the labeled rows in file order,
\* each keeping the index (post) it had in the file.
dropna(df) ==
    SelectSeq([i \in DOMAIN df |-> [post |-> i, market_id |-> df[i].market_id,
                                    labeled |-> df[i].labeled]],
              LAMBDA row : row.labeled)

\* prepare_post_dataset: X has one feature row per row of posts_df, in
\* iteration order; groups is the market_id column of posts_df.
prepare_post_dataset(posts_df) ==
    [X |-> [i \in DOMAIN posts_df |-> [from_post |-> posts_df[i].post]],
     groups |-> [i \in DOMAIN posts_df |-> posts_df[i].market_id]]

\* GroupKFold's assignment of groups to folds: groups in descending order of
\* their number of rows, each to the fold holding the fewest rows so far
\* (the first such fold).
RECURSIVE group_to_fold(_, _, _)
group_to_fold(pending, weight, n_samples_per_fold) ==
    IF pending = {} THEN [g \in {} |-> 0]
    ELSE LET g == CHOOSE x \in pending :
                      \A y \in pending :
                          weight[y] < weight[x] \/ (weight[y] = weight[x] /\ y <= x)
             lightest_fold ==
                 CHOOSE f \in DOMAIN n_samples_per_fold :
                     \A e \in DOMAIN n_samples_per_fold :
                         \/ n_samples_per_fold[f] < n_samples_per_fold[e]
                         \/ (n_samples_per_fold[f] = n_samples_per_fold[e] /\ f <= e)
         IN (g :> lightest_fold) @@
            group_to_fold(pending \ {g}, weight,
                          [n_samples_per_fold EXCEPT ![lightest_fold] = @ + weight[g]])

\* A split by row position alone, ignoring groups.
KFold(groups) ==
    [raised |-> Len(groups) < GroupNSplits,
     folds |-> IF Len(groups) < GroupNSplits THEN <<>>
               ELSE [k \in 1..GroupNSplits |->
                       [val |-> {i \in DOMAIN groups : (i % GroupNSplits) + 1 = k},
                        train |-> {i \in DOMAIN groups : (i % GroupNSplits) + 1 # k}]]]

\* GroupKFold(n_splits).split(X, y, groups): ValueError when there are fewer
\* groups than splits; else fold k validates on the rows of the groups
\* assigned to k and trains on all other rows.
GroupKFold(groups) ==
    LET unique_groups == {groups[i] : i \in DOMAIN groups}
        weight == [g \in unique_groups |->
                     Cardinality({i \in DOMAIN groups : groups[i] = g})]
        fold_of == group_to_fold(unique_groups, weight, [k \in 1..GroupNSplits |-> 0])
    IN [raised |-> Cardinality(unique_groups) < GroupNSplits,
        folds |-> IF Cardinality(unique_groups) < GroupNSplits THEN <<>>
                  ELSE [k \in 1..GroupNSplits |->
                          [val |-> {i \in DOMAIN groups : fold_of[groups[i]] = k},
                           train |-> {i \in DOMAIN groups : fold_of[groups[i]] # k}]]]

InitPosts ==
    /\ files = [p \in Paths |-> NoFile]
    /\ dirs = {}
    /\ registry = {}
    /\ _models = [k \in CacheKeys |-> None]
    /\ clock = 0
    /\ served = [n \in Names |-> NoVersion]
    /\ reports = {}
    /\ now = 0
    /\ handlers = [h \in Handlers |-> Idle]
    /\ \E df \in PostFiles : ret = [op |-> "posts", df |-> df]

\* load_post_training_data, prepare_post_dataset and the folds of
\* train_post_usefulness_model.
PostCrossValidation ==
    LET posts_df == dropna(ret.df)
        prepared == prepare_post_dataset(posts_df)
        split == GroupKFold(prepared.groups)
    IN /\ ret.op = "posts"
       /\ ret' = [op |-> "post_cv", df |-> ret.df, X |-> prepared.X,
                  raised |-> split.raised, folds |-> split.folds]
       /\ UNCHANGED <<files, dirs, registry, _models, clock, served, reports, now, handlers>>

SpecPostCV == InitPosts /\ [][PostCrossValidation]_vars

(***************************************************************************)
(* The feature vector of a correction call (app.py:264-290).  A frame of   *)
(* one row is a sequence of columns [name, value].                         *)
(***************************************************************************)

\* Requests: market_features.K, market_features.avg_posts_per_hour and
\* recent_summary.top_post_features (scores in tenths); the other request
\* fields are left at their defaults.
CorrectionRequests ==
    [K : {2, 3},
     avg_posts_per_hour : {0, 5},
     top_post_features :
        { <<>>,
          <<[relevance |-> 5, stance |-> 10]>>,
          <<[relevance |-> 5, stance |-> 10], [relevance |-> 10, stance |-> -10]>> }]

\* np.mean of one score over the posts.
RECURSIVE SumOver(_, _)
SumOver(posts, score) ==
    IF posts = <<>> THEN 0
    ELSE posts[1][score] + SumOver(Tail(posts), score)

MeanOf(posts, score) ==
    Rat(SumOver(posts, score), 10 * Len(posts))

\* The features dict built from the request, in insertion order, as the
\* one-row frame pd.DataFrame([features]).fillna(0).
CorrectionFeatures(request) ==
    << [name |-> "K", value |-> Rat(request.K, 1)],
       [name |-> "duration_days", value |-> Zero],
       [name |-> "posts_per_hour", value |-> Rat(request.avg_posts_per_hour, 1)],
       [name |-> "Wbatch", value |-> Zero],
       [name |-> "last_hour_delta", value |-> Zero] >>
    \o (IF request.top_post_features = <<>> THEN <<>>
        ELSE << [name |-> "mean_relevance",
                 value |-> MeanOf(request.top_post_features, "relevance")],
                [name |-> "mean_stance",
                 value |-> MeanOf(request.top_post_features, "stance")] >>)

\* Feature names a trained correction model may declare, and the lists of
\* them (model.feature_name()): every ordering of every non-empty subset.
ModelFeatureUniverse == {"K", "num_posts", "posts_per_hour", "mean_stance"}

ModelFeatureNames ==
    UNION { {f \in [1..n -> ModelFeatureUniverse] :
                \A i, j \in 1..n : i # j => f[i] # f[j]} :
            n \in 1..Cardinality(ModelFeatureUniverse) }

\* X[name] of a one-row frame that has the column.
ColumnValue(X, name) ==
    LET i == CHOOSE k \in DOMAIN X : X[k].name = name
    IN X[i].value

ColumnNames(X) == {X[k].name : k \in DOMAIN X}

\* The frame handed to predict without alignment to the model.
AsBuilt(X, feature_name) ==
    X

\* Lines 287-290: add every expected column that is missing with value 0,
\* then select the model's columns in the model's order.
AlignToModel(X, feature_name) ==
    [i \in DOMAIN feature_name |->
        [name |-> feature_name[i],
         value |-> IF feature_name[i] \in ColumnNames(X)
                   THEN ColumnValue(X, feature_name[i])
                   ELSE Zero]]

InitFeatures ==
    /\ files = [p \in Paths |-> NoFile]
    /\ dirs = {}
    /\ registry = {}
    /\ _models = [k \in CacheKeys |-> None]
    /\ clock = 0
    /\ served = [n \in Names |-> NoVersion]
    /\ reports = {}
    /\ now = 0
    /\ handlers = [h \in Handlers |-> Idle]
    /\ \E request \in CorrectionRequests, feature_name \in ModelFeatureNames :
           ret = [op |-> "correction_call", request |-> request,
                  feature_name |-> feature_name]

\* The try block of predict_correction up to model.predict(X).
BuildCorrectionInput ==
    /\ ret.op = "correction_call"
    /\ ret' = [op |-> "predict", request |-> ret.request,
               feature_name |-> ret.feature_name,
               X |-> AlignToModel(CorrectionFeatures(ret.request), ret.feature_name)]
    /\ UNCHANGED <<files, dirs, registry, _models, clock, served, reports, now, handlers>>

SpecFeatures == InitFeatures /\ [][BuildCorrectionInput]_vars

(***************************************************************************)
(* Post feature extraction: etl.compute_post_features and                  *)
(* features.prepare_post_features.  A dict is a record whose missing keys  *)
(* hold Absent; Python's None is None.                                     *)
(***************************************************************************)

Absent == [absent |-> TRUE]

\* A number (int or float) with its value as a rational.
Num(x) == [num |-> x]

Bool(b) == [bool |-> b]

Dict(items) == [dict |-> items]

EmptyDict == [dict |-> <<>>]

\* A non-empty JSON array or Python list.
List == [list |-> TRUE]

\* A str holding JSON text: what json.loads returns for it, or Malformed
\* when json.loads raises.
Json(parsed) == [json |-> parsed]

Malformed == [malformed |-> TRUE]

\* A str that is a post's text, by what the text features read from it:
\* its length and whether it contains "http", "#", "@", "$" and a digit.
Text(marks) == [text |-> marks]

EmptyText ==
    Text([length |-> 0, http |-> FALSE, hash |-> FALSE, at |-> FALSE,
          dollar |-> FALSE, digit |-> FALSE])

IsNum(v) == "num" \in DOMAIN v

IsDict(v) == "dict" \in DOMAIN v

\* d.get(key, default) on a dict's items.
Get(items, key, default) ==
    IF key \in DOMAIN items /\ items[key] # Absent THEN items[key] ELSE default

\* Truthiness: `v or default` takes default for None, 0, False, {} and "".
Falsy(v) ==
    \/ v \in {Absent, None, EmptyDict, Num(Zero), Bool(FALSE), EmptyText}
    \/ (IsDict(v) /\ \A k \in DOMAIN v.dict : v.dict[k] = Absent)

\* a * b on floats.
RMul(a, b) ==
    IF IsNaN(a) \/ IsNaN(b) THEN NaN ELSE Rat(a.n * b.n, a.d * b.d)

\* math.log1p of a non-negative number: 0 at 0, otherwise kept symbolic.
Log1p(x) ==
    IF x = Zero THEN Zero ELSE [log1p |-> x]

\* Products and sums in which a logarithm may occur.
Times(a, b) ==
    IF "n" \in DOMAIN a /\ "n" \in DOMAIN b THEN RMul(a, b)
    ELSE IF a = Zero \/ b = Zero THEN Zero
    ELSE [times |-> <<a, b>>]

Plus(a, b) ==
    IF "n" \in DOMAIN a /\ "n" \in DOMAIN b THEN RAdd(a, b)
    ELSE IF a = Zero THEN b
    ELSE IF b = Zero THEN a
    ELSE [plus |-> <<a, b>>]

\* The scores / metrics / flags value of a row after
\*   v = row.get(key, {}) or {}
\*   if isinstance(v, str): try json.loads(v) except: v = {}
\* which is a dict, or whatever else the field or the JSON text held.
StructuredField(row, key) ==
    LET v == IF Falsy(Get(row, key, EmptyDict)) THEN EmptyDict
             ELSE Get(row, key, EmptyDict)
    IN IF "json" \in DOMAIN v
       THEN (IF v.json = Malformed THEN EmptyDict ELSE v.json)
       ELSE v

\* The names of the Grok scores.
ScoreNames == {"relevance", "stance", "strength", "credibility", "confidence"}

\* etl.compute_post_features: the feature dict, or the exception that
\* leaves the function (.get on a value that is not a dict, float() or
\* math.log1p() of None, len() of a value that is not a str).
compute_post_features(row) ==
    LET scores == StructuredField(row, "scores")
        metrics == StructuredField(row, "metrics")
        flags == StructuredField(row, "flags")
        score(k) == Get(scores.dict, k, Num(Zero))
        followers == IF Falsy(Get(row, "author_followers", None)) THEN Num(Zero)
                     ELSE Get(row, "author_followers", None)
        count(k) == Get(metrics.dict, k, Num(Zero))
        text == IF Falsy(Get(row, "text", EmptyText)) THEN EmptyText
                ELSE Get(row, "text", EmptyText)
        flag(k) == ~Falsy(Get(flags.dict, k, None))
        semantic_strength ==
            RMul(RMul(score("relevance").num, score("strength").num),
                 score("credibility").num)
    IN IF ~IsDict(scores) THEN Raised("AttributeError")
       ELSE IF \E k \in ScoreNames : ~IsNum(score(k)) THEN Raised("TypeError")
       ELSE IF ~IsNum(followers) THEN Raised("TypeError")
       ELSE IF ~IsDict(metrics) THEN Raised("AttributeError")
       ELSE IF \E k \in {"like_count", "retweet_count", "reply_count", "quote_count"} :
                  ~IsNum(count(k))
            THEN Raised("TypeError")
       ELSE IF "text" \notin DOMAIN text THEN Raised("TypeError")
       ELSE IF ~IsDict(flags) THEN Raised("AttributeError")
       ELSE Returned(
              [relevance |-> score("relevance").num,
               stance |-> score("stance").num,
               strength |-> score("strength").num,
               credibility |-> score("credibility").num,
               confidence |-> score("confidence").num,
               semantic_strength |-> semantic_strength,
               abs_stance |-> Rat(Abs(score("stance").num.n), score("stance").num.d),
               signed_signal |-> RMul(score("stance").num, semantic_strength),
               log_followers |-> Log1p(followers.num),
               author_verified |-> ~Falsy(Get(row, "author_verified", None)),
               log_likes |-> Log1p(count("like_count").num),
               log_reposts |-> Log1p(count("retweet_count").num),
               log_replies |-> Log1p(count("reply_count").num),
               log_quotes |-> Log1p(count("quote_count").num),
               text_length |-> Rat(text.text.length, 1),
               has_url |-> text.text.http,
               has_hashtag |-> text.text.hash,
               has_mention |-> text.text.at,
               has_cashtag |-> text.text.dollar,
               has_numeric |-> text.text.digit,
               is_sarcasm |-> flag("is_sarcasm"),
               is_question |-> flag("is_question"),
               is_rumor |-> flag("is_rumor")])

\* Keys read by prepare_post_features in arithmetic, abs(), int() or a
\* comparison: a None under one of them raises TypeError.
ComputedOn ==
    {"stance", "strength", "credibility", "signed_signal", "log_followers",
     "author_verified", "log_likes", "log_reposts", "log_replies", "log_quotes",
     "has_url", "has_hashtag", "has_mention", "has_numeric",
     "is_sarcasm", "is_question", "is_rumor", "hours_before_resolution",
     "prob_before"}

\* The value of a number or a bool as a float (int(False) is 0).
AsNumber(v) ==
    IF "bool" \in DOMAIN v THEN (IF v.bool THEN One ELSE Zero) ELSE v.num

\* A value copied into the feature dict as it is.
Copied(v) ==
    IF v = None THEN None ELSE AsNumber(v)

\* |x| of a float.
RAbs(x) ==
    IF "n" \in DOMAIN x THEN Rat(Abs(x.n), x.d) ELSE x

\* features.prepare_post_features: every feature is post.get(key, default);
\* semantic_strength and signed_signal are read from the post like the
\* scores, with default 0.
prepare_post_features(post) ==
    LET get(k) == Get(post, k, Num(Zero))
        flag(k) == AsNumber(Get(post, k, Bool(FALSE)))
        prob_before == AsNumber(Get(post, "prob_before", Num(Rat(1, 2))))
        hours == AsNumber(get("hours_before_resolution"))
    IN IF \E k \in ComputedOn : Get(post, k, Num(Zero)) = None
       THEN Raised("TypeError")
       ELSE Returned(
              [relevance |-> Copied(get("relevance")),
               stance |-> AsNumber(get("stance")),
               strength |-> AsNumber(get("strength")),
               credibility |-> AsNumber(get("credibility")),
               confidence |-> Copied(get("confidence")),
               semantic_strength |-> Copied(get("semantic_strength")),
               abs_stance |-> RAbs(AsNumber(get("stance"))),
               signed_signal |-> AsNumber(get("signed_signal")),
               log_followers |-> AsNumber(get("log_followers")),
               author_verified |-> flag("author_verified"),
               log_likes |-> AsNumber(get("log_likes")),
               log_reposts |-> AsNumber(get("log_reposts")),
               log_replies |-> AsNumber(get("log_replies")),
               log_quotes |-> AsNumber(get("log_quotes")),
               total_log_engagement |->
                   Plus(Plus(AsNumber(get("log_likes")), AsNumber(get("log_reposts"))),
                        Plus(AsNumber(get("log_replies")), AsNumber(get("log_quotes")))),
               text_length |-> Copied(get("text_length")),
               has_url |-> flag("has_url"),
               has_hashtag |-> flag("has_hashtag"),
               has_mention |-> flag("has_mention"),
               has_numeric |-> flag("has_numeric"),
               is_sarcasm |-> flag("is_sarcasm"),
               is_question |-> flag("is_question"),
               is_rumor |-> flag("is_rumor"),
               hours_before_resolution |-> hours,
               is_recent |-> IF hours.n <= 24 * hours.d THEN One ELSE Zero,
               stance_x_followers |->
                   Times(AsNumber(get("stance")), AsNumber(get("log_followers"))),
               strength_x_credibility |->
                   Times(AsNumber(get("strength")), AsNumber(get("credibility"))),
               signal_x_followers |->
                   Times(AsNumber(get("signed_signal")), AsNumber(get("log_followers"))),
               prob_before |-> prob_before,
               prob_uncertainty |->
                   RAdd(One, RMul(Rat(-2, 1),
                                  RAbs(RAdd(prob_before, Rat(-1, 2)))))])

\* get_post_feature_names()
PostFeatureNames ==
    {"relevance", "stance", "strength", "credibility", "confidence",
     "semantic_strength", "abs_stance", "signed_signal",
     "log_followers", "author_verified",
     "log_likes", "log_reposts", "log_replies", "log_quotes", "total_log_engagement",
     "text_length", "has_url", "has_hashtag", "has_mention", "has_numeric",
     "is_sarcasm", "is_question", "is_rumor",
     "hours_before_resolution", "is_recent",
     "stance_x_followers", "strength_x_credibility", "signal_x_followers",
     "prob_before", "prob_uncertainty"}

\* Inputs of the extraction functions.  Scores are given as rationals.
FullScores ==
    [relevance |-> Num(Rat(8, 10)), stance |-> Num(Rat(-1, 1)),
     strength |-> Num(Rat(6, 10)), credibility |-> Num(Rat(9, 10)),
     confidence |-> Num(Rat(1, 2))]

\* The scores field of a raw row: missing, null, an object (complete, with
\* a key missing, with a null under a key), a list, or JSON text that holds
\* an object, is malformed, or holds null or an array.
ScoresValues ==
    { Absent, None, Dict(FullScores),
      Dict([FullScores EXCEPT !.strength = Absent]),
      Dict([FullScores EXCEPT !.relevance = None]),
      List, Json(Dict(FullScores)), Json(Malformed), Json(None), Json(List) }

MetricsValues ==
    { Absent, None, Dict([like_count |-> Num(Rat(3, 1))]),
      Dict([like_count |-> None]), Json(Malformed) }

FlagsValues ==
    { Absent, None, Dict([is_rumor |-> Bool(TRUE)]), Json(Malformed), Json(List) }

\* Raw post records as export_training_data hands them to
\* compute_post_features.
RawPosts ==
    [scores : ScoresValues,
     metrics : MetricsValues,
     flags : FlagsValues,
     author_followers : {Absent, None, Num(Rat(3, 1))},
     author_verified : {Absent, None, Bool(TRUE)},
     text : {Absent, None,
             Text([length |-> 12, http |-> TRUE, hash |-> FALSE, at |-> TRUE,
                   dollar |-> FALSE, digit |-> TRUE])}]

\* Post dicts handed to prepare_post_features with optional fields missing
\* or null.
PostDicts ==
    [relevance : {Absent, None, Num(Rat(8, 10))},
     stance : {Absent, None, Num(Rat(-1, 1))},
     author_verified : {Absent, None, Bool(TRUE)}]

\* Requests of the usefulness endpoint: post_features and prob_before.
UsefulnessRequests ==
    [relevance : {Zero, Rat(8, 10)}, stance : {Rat(-1, 1), One},
     strength : {Zero, Rat(6, 10)}, credibility : {Rat(9, 10)},
     confidence : {Zero}, log_followers : {Zero}, author_verified : {FALSE},
     prob_before : {Rat(1, 2)}]

\* The features of compute_post_features that are bools.
BoolFeatures ==
    {"author_verified", "has_url", "has_hashtag", "has_mention", "has_cashtag",
     "has_numeric", "is_sarcasm", "is_question", "is_rumor"}

\* A row of training_posts.parquet as the dict row.to_dict() that
\* prepare_post_dataset passes on: the features export_training_data stored.
StoredRow(features) ==
    [k \in DOMAIN features |->
        IF k \in BoolFeatures THEN Bool(features[k]) ELSE Num(features[k])]

\* The dict predict_post_usefulness passes to prepare_post_features: the
\* seven post_features fields and prob_before.
RequestDict(request) ==
    [relevance |-> Num(request.relevance), stance |-> Num(request.stance),
     strength |-> Num(request.strength), credibility |-> Num(request.credibility),
     confidence |-> Num(request.confidence),
     log_followers |-> Num(request.log_followers),
     author_verified |-> Bool(request.author_verified),
     prob_before |-> Num(request.prob_before)]

InitPostFeatures ==
    /\ files = [p \in Paths |-> NoFile]
    /\ dirs = {}
    /\ registry = {}
    /\ _models = [k \in CacheKeys |-> None]
    /\ clock = 0
    /\ served = [n \in Names |-> NoVersion]
    /\ reports = {}
    /\ now = 0
    /\ handlers = [h \in Handlers |-> Idle]
    /\ \/ \E row \in RawPosts : ret = [op |-> "raw_post", row |-> row]
       \/ \E post \in PostDicts : ret = [op |-> "post", post |-> post]
       \/ \E request \in UsefulnessRequests :
              ret = [op |-> "usefulness_call", request |-> request]

\* export_training_data computes the features of one raw post.
ExtractPostFeatures ==
    /\ ret.op = "raw_post"
    /\ ret' = [op |-> "extracted", row |-> ret.row,
               result |-> compute_post_features(ret.row)]
    /\ UNCHANGED <<files, dirs, registry, _models, clock, served, reports, now, handlers>>

\* prepare_post_dataset builds the training vector of a stored row.
PrepareTrainingVector ==
    /\ ret.op = "extracted"
    /\ ~ret.result.raised
    /\ ret' = [op |-> "post_vector", path |-> "training",
               result |-> prepare_post_features(StoredRow(ret.result.value))]
    /\ UNCHANGED <<files, dirs, registry, _models, clock, served, reports, now, handlers>>

\* prepare_post_features on a post dict.
PreparePostFeatures ==
    /\ ret.op = "post"
    /\ ret' = [op |-> "prepared", post |-> ret.post,
               result |-> prepare_post_features(ret.post)]
    /\ UNCHANGED <<files, dirs, registry, _models, clock, served, reports, now, handlers>>

\* predict_post_usefulness builds the serving vector of a request
\* (app.py:371-380).
BuildUsefulnessInput ==
    /\ ret.op = "usefulness_call"
    /\ ret' = [op |-> "post_vector", path |-> "serving",
               result |-> prepare_post_features(RequestDict(ret.request))]
    /\ UNCHANGED <<files, dirs, registry, _models, clock, served, reports, now, handlers>>

NextPostFeatures ==
    \/ ExtractPostFeatures
    \/ PrepareTrainingVector
    \/ PreparePostFeatures
    \/ BuildUsefulnessInput

SpecPostFeatures == InitPostFeatures /\ [][NextPostFeatures]_vars

(***************************************************************************)
(* The usefulness endpoint (app.py:349-400).                               *)
(***************************************************************************)

\* PostUsefulnessResponse: two floats and a str, which every value the
\* handler passes satisfies.
PostUsefulnessResponse(usefulness_score, move_toward_truth_prob, model_version) ==
    Returned([usefulness_score |-> usefulness_score,
              move_toward_truth_prob |-> move_toward_truth_prob,
              model_version |-> model_version])

\* A proxy that looks at relevance alone.
relevance_only(request) ==
    request.relevance

\* The heuristic proxy of line 359.
semantic(request) ==
    RMul(RMul(request.relevance, request.strength), request.credibility)

\* What the try block of predict_post_usefulness does: predict returns prob,
\* or a step raises.
UsefulnessOutcomes ==
    { [ok |-> TRUE, prob |-> Rat(7, 10)], [ok |-> FALSE, prob |-> NaN] }

\* The body of predict_post_usefulness after model resolution.
UsefulnessBody(model_info, request, out) ==
    IF model_info = None
    THEN PostUsefulnessResponse(semantic(request), Rat(1, 2), "heuristic")
    ELSE IF out.ok
    THEN PostUsefulnessResponse(out.prob, out.prob, model_info.version)
    ELSE PostUsefulnessResponse(Rat(1, 2), Rat(1, 2), model_info.version)

\* POST /v1/predict/post_usefulness.
PredictPostUsefulness(request, reach, out) ==
    LET dep == get_deployed_model("post_usefulness", reach)
        got == load_model("post_usefulness", NoVersion)
        model_info == IF dep # None THEN dep ELSE got.value
        resp == IF dep = None /\ got.raised THEN Raised("joblib.load")
                ELSE UsefulnessBody(model_info, request, out)
        tier == IF dep # None THEN "deployed"
                ELSE IF got.raised THEN "raised"
                ELSE IF got.value = None THEN "none" ELSE "local"
    IN /\ _models' = IF dep = None THEN got.cache ELSE _models
       /\ ret' = [op |-> "predict_post_usefulness", request |-> request,
                  tier |-> tier, raised |-> resp.raised, value |-> resp.value]
       /\ served' = IF ~resp.raised /\ model_info # None
                    THEN [served EXCEPT !["post_usefulness"] = model_info.version]
                    ELSE served
       /\ UNCHANGED <<files, dirs, registry, clock, reports, now, handlers>>

\* The usefulness model's life: its trainer, the promotion process and the
\* serving process.
NextUsefulness ==
    \/ \E v \in Versions, o \in SaveOutcomes : PostSaveModel(v, o[1], o[2])
    \/ \E v \in Versions : RemoteSaveModel("post_usefulness", v)
    \/ \E r \in registry, flag \in BOOLEAN : SetDeployed(r, flag)
    \/ \E request \in UsefulnessRequests, reach \in BOOLEAN, out \in UsefulnessOutcomes :
           PredictPostUsefulness(request, reach, out)
    \/ Restart

SpecUsefulness == Init /\ [][NextUsefulness]_vars

(***************************************************************************)
(* load_model statement by statement, one run per request handler          *)
(* (app.py:112-141).  The handlers share _models; the trainer, a separate   *)
(* process, writes the store while they run.                               *)
(***************************************************************************)

\* A handler that left load_model: by return or by exception.
Done(name, version, raised, value, first) ==
    [pc |-> "done", name |-> name, version |-> version, raised |-> raised,
     value |-> value, first |-> first]

\* Lines 114-117: the cache key and the cache check.
Enter(h, name, version) ==
    LET cache_key == CacheKey(name, version)
    IN /\ handlers[h] = Idle
       /\ handlers' = [handlers EXCEPT ![h] =
              IF _models[cache_key] # None
              THEN Done(name, version, FALSE, _models[cache_key], FALSE)
              ELSE [pc |-> "miss", name |-> name, version |-> version]]
       /\ UNCHANGED <<files, dirs, registry, _models, clock, served, ret, reports, now>>

\* Lines 119-136: the directory, the newest file or the named one.
FindPath(h) ==
    LET me == handlers[h]
        v == IF me.version = NoVersion THEN NewestVersion(me.name) ELSE me.version
        absent == Done(me.name, me.version, FALSE, None, TRUE)
    IN /\ me.pc = "miss"
       /\ handlers' = [handlers EXCEPT ![h] =
              IF me.name \notin dirs THEN absent
              ELSE IF me.version = NoVersion /\ ModelFiles(me.name) = {} THEN absent
              ELSE IF ~files[<<me.name, v>>].exists THEN absent
              ELSE [pc |-> "found", name |-> me.name, version |-> me.version,
                    stem |-> v]]
       /\ UNCHANGED <<files, dirs, registry, _models, clock, served, ret, reports, now>>

\* Line 138: joblib.load of the file as it is now.
JoblibLoad(h) ==
    LET me == handlers[h]
        f == files[<<me.name, me.stem>>]
    IN /\ me.pc = "found"
       /\ handlers' = [handlers EXCEPT ![h] =
              IF ~f.loadable
              THEN Done(me.name, me.version, TRUE, None, TRUE)
              ELSE [pc |-> "loaded", name |-> me.name, version |-> me.version,
                    stem |-> me.stem, model |-> f.blob]]
       /\ UNCHANGED <<files, dirs, registry, _models, clock, served, ret, reports, now>>

\* Line 139: the entry is built and assigned to the cache key.
Store(h) ==
    LET me == handlers[h]
    IN /\ me.pc = "loaded"
       /\ _models' = [_models EXCEPT ![CacheKey(me.name, me.version)] =
                         [model |-> me.model, version |-> me.stem]]
       /\ handlers' = [handlers EXCEPT ![h] =
              [pc |-> "stored", name |-> me.name, version |-> me.version]]
       /\ UNCHANGED <<files, dirs, registry, clock, served, ret, reports, now>>

\* Line 141: the cache is read again for the return value.
Return(h) ==
    LET me == handlers[h]
    IN /\ me.pc = "stored"
       /\ handlers' = [handlers EXCEPT ![h] =
              Done(me.name, me.version, FALSE,
                   _models[CacheKey(me.name, me.version)], TRUE)]
       /\ UNCHANGED <<files, dirs, registry, _models, clock, served, ret, reports, now>>

\* The request ends and the handler takes the next one.
Finish(h) ==
    /\ handlers[h].pc = "done"
    /\ handlers' = [handlers EXCEPT ![h] = Idle]
    /\ UNCHANGED <<files, dirs, registry, _models, clock, served, ret, reports, now>>

\* The names and versions the handlers ask for.
HandlerVersions == {NoVersion, "v1"}

NextHandlers ==
    \/ \E h \in Handlers, version \in HandlerVersions :
           Enter(h, "gbdt_correction", version)
    \/ \E h \in Handlers : FindPath(h)
    \/ \E h \in Handlers : JoblibLoad(h)
    \/ \E h \in Handlers : Store(h)
    \/ \E h \in Handlers : Return(h)
    \/ \E h \in Handlers : Finish(h)
    \/ \E v \in Versions, o \in SaveOutcomes : GbdtSaveModel(v, o[1], o[2])

SpecHandlers == Init /\ [][NextHandlers]_vars

(***************************************************************************)
(* The label constructor (etl.py:236-300).  Timestamps are the strings the *)
(* repository returns: a second, an optional fraction and the UTC offset,  *)
(* written here as sequences of character codes ("0+", "0.5+", "1+",        *)
(* "1.5+"); the code compares them as strings.                             *)
(***************************************************************************)

MaxSnapshots == 2

MaxLabelPosts == 2

TimestampTexts ==
    { <<48, 43>>, <<48, 46, 53, 43>>, <<49, 43>>, <<49, 46, 53, 43>> }

\* a < b on Python strings: the first differing character decides, a proper
\* prefix is smaller.
RECURSIVE StrLess(_, _)
StrLess(a, b) ==
    IF b = <<>> THEN FALSE
    ELSE IF a = <<>> THEN TRUE
    ELSE IF Head(a) # Head(b) THEN Head(a) < Head(b)
    ELSE StrLess(Tail(a), Tail(b))

\* The outcome the market resolved to, and the other one.
winning_outcome_id == "A"

\* A snapshot's probabilities column: a dict, or the JSON text of one.
SnapshotProbabilities ==
    { Dict(("A" :> Rat(1, 4)) @@ ("B" :> Rat(3, 4))),
      Json(Dict(("A" :> Rat(3, 4)) @@ ("B" :> Rat(1, 4)))) }

SnapshotRows ==
    [timestamp : TimestampTexts, probabilities : SnapshotProbabilities]

SnapshotFrames ==
    UNION { [1..n -> SnapshotRows] : n \in 0..MaxSnapshots }

\* scored_at of a post: a timestamp text, or None.
ScoredAts == {[at |-> t] : t \in TimestampTexts} \cup {None}

PostFrames ==
    UNION { [1..n -> ScoredAts] : n \in 0..MaxLabelPosts }

\* a - b on floats.
RSub(a, b) ==
    RAdd(a, [n |-> -b.n, d |-> b.d])

\* The orders of n rows.
Orders(n) ==
    { p \in [1..n -> 1..n] : \A i, j \in 1..n : i # j => p[i] # p[j] }

\* The orders sort_values("scored_at") may leave the posts in: keys
\* ascending, missing keys last, rows with equal keys in any order.
PostOrders(posts_df) ==
    { p \in Orders(Len(posts_df)) :
        \A i, j \in DOMAIN posts_df : i < j =>
            \/ posts_df[p[j]] = None
            \/ /\ posts_df[p[i]] # None
               /\ ~StrLess(posts_df[p[j]].at, posts_df[p[i]].at) }

\* The orders sort_values("timestamp") may leave the snapshots in.
SnapshotOrders(snapshots_df) ==
    { p \in Orders(Len(snapshots_df)) :
        \A i, j \in DOMAIN snapshots_df : i < j =>
            ~StrLess(snapshots_df[p[j]].timestamp, snapshots_df[p[i]].timestamp) }

\* Lines 275-277 and 281-283: the winning outcome's entry of a snapshot.
WinnerProbability(probabilities) ==
    LET probs == IF "json" \in DOMAIN probabilities THEN probabilities.json
                 ELSE probabilities
    IN Get(probs.dict, winning_outcome_id, Rat(1, 2))

\* A label that counts a tie as a move toward the truth.
MovedOrTied(delta_prob) ==
    Bool(delta_prob.n >= 0)

\* Line 296: delta_prob > 0.
MovedTowardTruth(delta_prob) ==
    Bool(delta_prob.n > 0)

\* Lines 264-293: one post against the sorted snapshots.
LabelRow(id, scored_at, snaps) ==
    LET timed == scored_at # None /\ scored_at.at # <<>>
        at == IF timed THEN scored_at.at ELSE <<>>
        before_snaps == SelectSeq(snaps, LAMBDA r : StrLess(r.timestamp, at))
        after_snaps == SelectSeq(snaps, LAMBDA r : ~StrLess(r.timestamp, at))
        prob_before == IF timed /\ before_snaps # <<>>
                       THEN WinnerProbability(before_snaps[Len(before_snaps)].probabilities)
                       ELSE Rat(1, 2)
        prob_after == IF timed /\ after_snaps # <<>>
                      THEN WinnerProbability(after_snaps[1].probabilities)
                      ELSE Rat(1, 2)
        delta_prob == RSub(prob_after, prob_before)
    IN [id |-> id, scored_at |-> scored_at, prob_before |-> prob_before,
        prob_after |-> prob_after, delta_prob |-> delta_prob,
        moved_toward_truth |-> MovedTowardTruth(delta_prob)]

\* A post the label columns were not added to.
UnlabeledRow(id, scored_at) ==
    [id |-> id, scored_at |-> scored_at, prob_before |-> Absent,
     prob_after |-> Absent, delta_prob |-> Absent, moved_toward_truth |-> Absent]

\* label_posts_with_truth; post_order and snapshot_order are the orders the
\* two sort_values calls produced.
label_posts_with_truth(posts_df, snapshots_df, post_order, snapshot_order) ==
    LET snaps == [k \in DOMAIN snapshots_df |-> snapshots_df[snapshot_order[k]]]
    IN IF posts_df = <<>> THEN <<>>
       ELSE IF snapshots_df = <<>>
       THEN [k \in DOMAIN posts_df |->
               UnlabeledRow(post_order[k], posts_df[post_order[k]])]
       ELSE [k \in DOMAIN posts_df |->
               LabelRow(post_order[k], posts_df[post_order[k]], snaps)]

InitLabels ==
    /\ files = [p \in Paths |-> NoFile]
    /\ dirs = {}
    /\ registry = {}
    /\ _models = [k \in CacheKeys |-> None]
    /\ clock = 0
    /\ served = [n \in Names |-> NoVersion]
    /\ reports = {}
    /\ now = 0
    /\ handlers = [h \in Handlers |-> Idle]
    /\ \E posts_df \in PostFrames, snapshots_df \in SnapshotFrames :
          ret = [op |-> "extracted", posts_df |-> posts_df,
                 snapshots_df |-> snapshots_df]

\* The call of export_training_data (etl.py:347).
LabelPosts ==
    LET posts_df == ret.posts_df
        snapshots_df == ret.snapshots_df
    IN /\ ret.op = "extracted"
       /\ \E post_order \in PostOrders(posts_df),
             snapshot_order \in SnapshotOrders(snapshots_df) :
             ret' = [op |-> "label_posts_with_truth", posts_df |-> posts_df,
                     snapshots_df |-> snapshots_df,
                     value |-> label_posts_with_truth(posts_df, snapshots_df,
                                                      post_order, snapshot_order)]
       /\ UNCHANGED <<files, dirs, registry, _models, clock, served, reports, now, handlers>>

SpecLabels == InitLabels /\ [][LabelPosts]_vars

(***************************************************************************)
(* Best-of-folds selection (train_gbdt.py:87-131,                          *)
(* train_post_model.py:67-126).  A fold's model is named by the fold's     *)
(* number; validation RMSE is a natural number of grid steps, validation   *)
(* AUC is given in hundredths.                                             *)
(***************************************************************************)

MaxRmse == 3

RmseGrid == 0..MaxRmse

AucGrid == {0, 50, 100}

\* The fold counts the splitters accept, up to the default.
SplitCounts == 2..NSplits

\* The model lgb.train returned in a fold.
Booster(fold) == [booster |-> fold]

\* float("inf"), and a finite score.
Infinity == [inf |-> TRUE]

Finite(x) == [fin |-> x]

\* A selection that also replaces the best model on a tie.
improves_or_ties(rmse, best_score) ==
    best_score = Infinity \/ rmse <= best_score.fin

\* train_gbdt.py:122: rmse < best_score.
improves(rmse, best_score) ==
    best_score = Infinity \/ rmse < best_score.fin

\* The loop of train_correction_model over the folds from fold on.
RECURSIVE CorrectionFolds(_, _, _, _)
CorrectionFolds(rmses, fold, best_model, best_score) ==
    IF fold > Len(rmses)
    THEN [model |-> best_model, best_rmse |-> best_score, cv_folds |-> rmses]
    ELSE IF improves(rmses[fold], best_score)
    THEN CorrectionFolds(rmses, fold + 1, Booster(fold), Finite(rmses[fold]))
    ELSE CorrectionFolds(rmses, fold + 1, best_model, best_score)

train_correction_model(rmses) ==
    CorrectionFolds(rmses, 1, None, Infinity)

\* The loop of train_post_usefulness_model: best_auc starts at 0 and a fold
\* replaces the best model when auc > best_auc (train_post_model.py:68-69,
\* 112-114).
RECURSIVE UsefulnessFolds(_, _, _, _)
UsefulnessFolds(aucs, fold, best_model, best_auc) ==
    IF fold > Len(aucs)
    THEN [model |-> best_model, best_auc |-> best_auc, cv_folds |-> aucs]
    ELSE IF aucs[fold] > best_auc
    THEN UsefulnessFolds(aucs, fold + 1, Booster(fold), aucs[fold])
    ELSE UsefulnessFolds(aucs, fold + 1, best_model, best_auc)

train_post_usefulness_model(aucs) ==
    UsefulnessFolds(aucs, 1, None, 0)

InitFolds ==
    /\ files = [p \in Paths |-> NoFile]
    /\ dirs = {}
    /\ registry = {}
    /\ _models = [k \in CacheKeys |-> None]
    /\ clock = 0
    /\ served = [n \in Names |-> NoVersion]
    /\ reports = {}
    /\ now = 0
    /\ handlers = [h \in Handlers |-> Idle]
    /\ \E n_splits \in SplitCounts :
          \E rmses \in [1..n_splits -> RmseGrid], aucs \in [1..n_splits -> AucGrid] :
             ret = [op |-> "folds", rmses |-> rmses, aucs |-> aucs]

TrainCorrectionModel ==
    /\ ret.op = "folds"
    /\ ret' = [op |-> "train_correction_model", rmses |-> ret.rmses,
               aucs |-> ret.aucs, value |-> train_correction_model(ret.rmses)]
    /\ UNCHANGED <<files, dirs, registry, _models, clock, served, reports, now, handlers>>

TrainPostUsefulnessModel ==
    /\ ret.op = "folds"
    /\ ret' = [op |-> "train_post_usefulness_model", rmses |-> ret.rmses,
               aucs |-> ret.aucs, value |-> train_post_usefulness_model(ret.aucs)]
    /\ UNCHANGED <<files, dirs, registry, _models, clock, served, reports, now, handlers>>

NextFolds ==
    \/ TrainCorrectionModel
    \/ TrainPostUsefulnessModel

SpecFolds == InitFolds /\ [][NextFolds]_vars

(***************************************************************************)
(* load_model as the event loop runs it: a handler's call is one step      *)
(* (there is no await inside load_model), and the handler keeps what the   *)
(* call gave it until its request ends.                                    *)
(***************************************************************************)

Call(h, name, version) ==
    LET got == load_model(name, version)
    IN /\ handlers[h] = Idle
       /\ _models' = got.cache
       /\ handlers' = [handlers EXCEPT ![h] =
              Done(name, version, got.raised, got.value,
                   _models[CacheKey(name, version)] = None)]
       /\ ret' = [op |-> "load_model", raised |-> got.raised, value |-> got.value]
       /\ UNCHANGED <<files, dirs, registry, clock, served, reports, now>>

NextServing ==
    \/ \E h \in Handlers, version \in HandlerVersions :
           Call(h, "gbdt_correction", version)
    \/ \E h \in Handlers : Finish(h)
    \/ \E v \in Versions, o \in SaveOutcomes : GbdtSaveModel(v, o[1], o[2])

SpecServing == Init /\ [][NextServing]_vars

(***************************************************************************)
(* Properties.                                                             *)
(***************************************************************************)

GB == "gbdt_correction"

\* The newest deployed row of the correction model, when the serving
\* process can use it: registry reachable, file present and loadable.
UsableDeployed(reach) ==
    {r \in DeployedRecords(GB) :
        /\ reach
        /\ \A q \in DeployedRecords(GB) : q.created_at <= r.created_at
        /\ r.path.host = "local"
        /\ files[<<r.path.name, r.path.version>>].exists
        /\ files[<<r.path.name, r.path.version>>].loadable}

\* The model handle of a deployed row.
HandleOf(r) ==
    [model |-> files[<<r.path.name, r.path.version>>].blob,
     version |-> r.version, model_id |-> r.model_id]

\* The most recently modified artifact of the correction model as a handle.
NewestLocal ==
    LET v == CHOOSE x \in ModelFiles(GB) :
                 \A w \in ModelFiles(GB) : files[<<GB, w>>].mtime <= files[<<GB, x>>].mtime
    IN [model |-> files[<<GB, v>>].blob, version |-> v]

\* C1: a correction request for which no model can be resolved (no usable
\* deployed row, no local artifact) gets a response, not an exception, with
\* the request's probabilities unchanged, model_version "none" and
\* confidence 0.0.
C1_NoModelEchoesInput ==
    [][\A p \in RequestProbs, reach \in BOOLEAN, out \in ModelOutcomes :
          (/\ PredictCorrection(p, reach, out)
           /\ get_deployed_model(GB, reach) = None
           /\ ModelFiles(GB) = {})
          => (/\ ~ret'.raised
              /\ ret'.value.probabilities_corrected = AsFloats(p)
              /\ ret'.value.model_version = "none"
              /\ ret'.value.confidence = Zero)]_vars

\* A float strictly between 0 and 1.
StrictlyInside(v) ==
    ~IsNaN(v) /\ 0 < v.n /\ v.n < v.d

\* C2: the clip / logit / add c / logistic / renormalize step yields, for
\* every probability mapping and every correction c, a mapping whose
\* entries sum to 1 and lie strictly between 0 and 1.  Stated for mappings
\* of two or more outcomes, where such a distribution exists.
C2_ValidDistribution ==
    (ret.op = "corrected" /\ Cardinality(DOMAIN ret.probs) >= 2) =>
        /\ \A k \in DOMAIN ret.corrected : StrictlyInside(ret.corrected[k])
        /\ SumValues(ret.corrected, DOMAIN ret.corrected) = One

\* C3: with a model resolved, a failure inside the try block yields a
\* response, not an exception, with the request's probabilities, confidence
\* 0.0 and the error message in explain (as the string, or as the float the
\* response model parses it to).
C3_FailureDegrades ==
    [][\A p \in RequestProbs, reach \in BOOLEAN, out \in ModelOutcomes :
          (/\ PredictCorrection(p, reach, out)
           /\ ~out.ok
           /\ ret'.model_info # None)
          => (/\ ~ret'.raised
              /\ ret'.value.probabilities_corrected = AsFloats(p)
              /\ ret'.value.confidence = Zero
              /\ ret'.value.explain["error"] \in {Str(out.msg), Coerce(Str(out.msg))})]_vars

\* C4: predict_correction never propagates an exception, whatever the state
\* of the registry and of the local store.
C4_NeverRaises ==
    ret.op = "predict_correction" => ~ret.raised

C6_MissingVersionAbsent ==
    [][\A v \in Versions :
          (LoadModel(GB, v) /\ ~files[<<GB, v>>].exists)
          => (~ret'.raised /\ ret'.value = None /\ _models' = _models)]_vars

\* C7: with the registry unreachable and at least one local artifact,
\* resolution returns the most recently modified local artifact and the
\* serving call proceeds with it.
C7_UnreachableServesNewest ==
    [][\A p \in RequestProbs, out \in ModelOutcomes :
          (PredictCorrection(p, FALSE, out) /\ ModelFiles(GB) # {})
          => (ret'.tier = "local" /\ ret'.model_info = NewestLocal)]_vars

\* C8 as claimed: once a request has been served with some version, later
\* requests of the same process are served that version, also after another
\* model has been deployed.
C8_ServedVersionSticks ==
    [][\A p \in RequestProbs, reach \in BOOLEAN, out \in ModelOutcomes :
          (/\ PredictCorrection(p, reach, out)
           /\ served[GB] # NoVersion
           /\ ~ret'.raised)
          => ret'.value.model_version = served[GB]]_vars

\* C8 as amended: a request is served the newest deployed row's version as
\* soon as that row is usable, whatever was served before; only requests
\* that fall back to the local store are served the version cached under
\* name:latest, however many newer artifacts have been saved since.
C8_OnlyLocalFallbackIsSticky ==
    [][\A p \in RequestProbs, reach \in BOOLEAN, out \in ModelOutcomes :
          (ret'.op = "predict_correction" /\ ~ret'.raised
           /\ PredictCorrection(p, reach, out))
          => IF UsableDeployed(reach) # {}
             THEN \E r \in UsableDeployed(reach) :
                      ret'.value.model_version = r.version
             ELSE _models[<<GB, "latest">>] # None
                  => ret'.value.model_version = _models[<<GB, "latest">>].version]_vars

\* C8 witness: a request was served from the cache entry while a newer
\* artifact than the served one is in the local store.
C8_Witness ==
    /\ ret.op = "predict_correction"
    /\ ~ret.raised
    /\ ret.tier = "local"
    /\ \E v \in ModelFiles(GB) : files[<<GB, v>>].mtime > ret.model_info.model

\* What a save_model run with a completed dump and a failed registry insert
\* leaves behind.
KeepsArtifact(name, version) ==
    /\ files' = [files EXCEPT ![<<name, version>>] =
                    [exists |-> TRUE, blob |-> clock + 1, mtime |-> clock + 1,
                     loadable |-> TRUE]]
    /\ registry' = registry
    /\ ~ret'.raised
    /\ ret'.value = [model_id |-> clock + 1]

\* C9: save_model of either trainer, when the registry insert fails or the
\* registry is unreachable, leaves the artifact file under name/version in
\* the local store, raises nothing and returns the generated model_id.
C9_RegistryFailureKeepsArtifact ==
    [][\A v \in Versions :
          /\ GbdtSaveModel(v, "ok", FALSE) => KeepsArtifact("gbdt_correction", v)
          /\ PostSaveModel(v, "ok", FALSE) => KeepsArtifact("post_usefulness", v)]_vars

\* C9 witness: a save returned a model_id that no registry row carries, and
\* its artifact is in the store.
C9_Witness ==
    /\ ret.op = "save_model"
    /\ ~ret.raised
    /\ \A r \in registry : r.model_id # ret.value.model_id
    /\ \E path \in Paths :
           files[path].exists /\ files[path].blob = ret.value.model_id

\* C10: with no promotion taking place, every registry row has
\* approved = false and deployed = false, and no request is served from the
\* deployed tier.
C10_NothingDeployedWithoutPromotion ==
    /\ \A r \in registry : ~r.approved /\ ~r.deployed
    /\ ret.op = "predict_correction" => ret.tier # "deployed"

\* C10 witness: rows of both trainers are registered and a request has been
\* served from the local store.
C10_Witness ==
    /\ \E r \in registry : r.name = "gbdt_correction" /\ r.path.host = "local"
    /\ \E r \in registry : r.name = "post_usefulness"
    /\ ret.op = "predict_correction"
    /\ ret.tier = "local"

\* C11: an artifact stored under a name/version is created once: no later
\* save replaces or changes the file of an existing name/version, and no
\* artifact is removed.
C11_ArtifactsImmutable ==
    [][\A path \in Paths : files[path].exists => files'[path] = files[path]]_vars

\* What a train_and_save run that refuses to train leaves behind: None is
\* returned, a reason is reported, and no artifact, registry row or report
\* is written.
RefusesToTrain ==
    /\ ret'.op = "train_and_save"
    /\ ~ret'.raised
    /\ ret'.value = None
    /\ ret'.reason # ""
    /\ files' = files
    /\ registry' = registry
    /\ reports' = reports

\* C12: train_and_save below its sample gate (fewer than 50 resolved
\* markets, fewer than 100 labeled posts) returns no model id, reports the
\* reason and writes no artifact, registry row or report; and a correction
\* request served right after it from an empty store returns the caller's
\* probabilities unchanged with version "none".
C12_GateThenEcho ==
    [][/\ \A v \in Versions \cup {NoVersion}, o \in SaveOutcomes :
            /\ \A d \in GbdtData :
                  (/\ d.markets_file /\ d.markets < min_resolved_markets_gbdt
                   /\ GbdtTrainAndSave(v, d, o[1], o[2]))
                  => RefusesToTrain
            /\ \A d \in PostData :
                  (/\ d.posts_file /\ d.labels /\ d.labeled < MinLabeledPosts
                   /\ PostTrainAndSave(v, d, o[1], o[2]))
                  => RefusesToTrain
       /\ \A p \in RequestProbs, reach \in BOOLEAN, out \in ModelOutcomes :
            (/\ ret.op = "train_and_save" /\ ret.value = None
             /\ ModelFiles(GB) = {} /\ registry = {}
             /\ PredictCorrection(p, reach, out))
            => (/\ ~ret'.raised
                /\ ret'.value.probabilities_corrected = AsFloats(p)
                /\ ret'.value.model_version = "none")]_vars

\* C13: every data-availability condition of the training entry points
\* (training file absent, no resolved markets, no training posts, posts
\* without the moved_toward_truth column, sample below the threshold) ends
\* train_and_save with None and no artifact, never with an exception.
C13_DataConditionsNeverRaise ==
    [][\A v \in Versions \cup {NoVersion}, o \in SaveOutcomes :
          /\ \A d \in GbdtData :
                (/\ ~d.markets_file \/ d.markets < min_resolved_markets_gbdt
                 /\ GbdtTrainAndSave(v, d, o[1], o[2]))
                => RefusesToTrain
          /\ \A d \in PostData :
                (/\ ~d.posts_file \/ ~d.labels \/ d.labeled < MinLabeledPosts
                 /\ PostTrainAndSave(v, d, o[1], o[2]))
                => RefusesToTrain]_vars

\* C14: in every split of the market-level cross-validation, no market of
\* the validation slice has a resolution timestamp earlier than that of any
\* market of the split's training slice.
C14_ValidationNotEarlier ==
    ret.op = "market_cv" =>
        \A k \in DOMAIN ret.folds :
            \A i \in ret.folds[k].train, j \in ret.folds[k].val :
                (ret.X[i].resolved_at # NaT /\ ret.X[j].resolved_at # NaT)
                => ret.X[j].resolved_at >= ret.X[i].resolved_at

\* C14 witness: a dataset that is not in resolution order in the file has
\* been split, with timestamped markets on both sides of every split.
C14_Witness ==
    /\ ret.op = "market_cv"
    /\ \E i, j \in DOMAIN ret.dataset :
           /\ i < j
           /\ ret.dataset[j].resolved_at # NaT
           /\ ret.dataset[j].resolved_at < ret.dataset[i].resolved_at
    /\ \A k \in DOMAIN ret.folds :
           /\ \E i \in ret.folds[k].train : ret.X[i].resolved_at # NaT
           /\ \E j \in ret.folds[k].val : ret.X[j].resolved_at # NaT

\* The market identifiers of the posts that the feature rows at the given
\* positions of X were computed from.
MarketsOfRows(positions) ==
    {ret.df[ret.X[i].from_post].market_id : i \in positions}

\* C15: in every fold of the post-level cross-validation, the market
\* identifiers of the validation rows are disjoint from those of the fold's
\* training rows, a row's market being that of the post its features were
\* computed from.
C15_FoldsDisjointByMarket ==
    (ret.op = "post_cv" /\ ~ret.raised) =>
        \A k \in DOMAIN ret.folds :
            MarketsOfRows(ret.folds[k].val) \cap MarketsOfRows(ret.folds[k].train) = {}

\* C15 witness: folds were built from a file in which an unlabeled row
\* precedes a labeled one (positions and file indices differ) and a market
\* has several labeled posts.
C15_Witness ==
    /\ ret.op = "post_cv"
    /\ ~ret.raised
    /\ \E i \in DOMAIN ret.X : ret.X[i].from_post # i
    /\ \E i, j \in DOMAIN ret.X :
           i # j /\ MarketsOfRows({i}) = MarketsOfRows({j})
    /\ \A k \in DOMAIN ret.folds : ret.folds[k].val # {} /\ ret.folds[k].train # {}

\* C16: the frame passed to predict has exactly the model's declared
\* feature names in the model's declared order; a feature the request did
\* not supply is 0, a supplied one carries the request's value, and nothing
\* the model does not expect is in the frame.
C16_InputMatchesModelFeatures ==
    ret.op = "predict" =>
        /\ Len(ret.X) = Len(ret.feature_name)
        /\ \A i \in DOMAIN ret.X :
              /\ ret.X[i].name = ret.feature_name[i]
              /\ ret.X[i].value =
                    IF ret.X[i].name \in ColumnNames(CorrectionFeatures(ret.request))
                    THEN ColumnValue(CorrectionFeatures(ret.request), ret.X[i].name)
                    ELSE Zero

\* C16 witness: a call where the model expects a feature the request did
\* not supply, the request supplied a feature with a non-zero value that the
\* model expects in another position than the request built it, and a
\* supplied feature was dropped.
C16_Witness ==
    /\ ret.op = "predict"
    /\ \E i \in DOMAIN ret.X :
           ret.X[i].name \notin ColumnNames(CorrectionFeatures(ret.request))
    /\ \E i \in DOMAIN ret.X :
           /\ ret.X[i].name = "posts_per_hour"
           /\ ret.X[i].value # Zero
           /\ i # 3
    /\ "mean_relevance" \in ColumnNames(CorrectionFeatures(ret.request))

\* C17: in every feature vector given to the usefulness model, in training
\* and in serving, semantic_strength is relevance * strength * credibility
\* and signed_signal is stance * semantic_strength of that vector's scores.
C17_DerivedFieldsComputed ==
    (ret.op = "post_vector" /\ ~ret.result.raised) =>
        LET v == ret.result.value
        IN /\ v.semantic_strength = RMul(RMul(v.relevance, v.strength), v.credibility)
           /\ v.signed_signal = RMul(v.stance, v.semantic_strength)

\* The feature names compute_post_features returns.
ExtractedNames ==
    ScoreNames \cup BoolFeatures \cup
    {"semantic_strength", "abs_stance", "signed_signal", "log_followers",
     "log_likes", "log_reposts", "log_replies", "log_quotes", "text_length"}

\* A key of a structured sub-field that yields no value: the sub-field is
\* missing, null, malformed or not an object, or the key is missing or null
\* in it.
NoValue(row, field, key) ==
    \/ ~IsDict(StructuredField(row, field))
    \/ Get(StructuredField(row, field).dict, key, None) = None

\* C18: post feature extraction is total: for a record with optional fields
\* absent, null or holding a malformed structured sub-field, it raises
\* nothing and returns the full fixed-schema vector, with every affected
\* numeric feature 0 and every affected boolean false.
C18_ExtractionTotal ==
    /\ ret.op = "extracted" =>
          /\ ~ret.result.raised
          /\ DOMAIN ret.result.value = ExtractedNames
          /\ \A k \in ScoreNames :
                NoValue(ret.row, "scores", k) => ret.result.value[k] = Zero
          /\ NoValue(ret.row, "metrics", "like_count") => ret.result.value.log_likes = Zero
          /\ NoValue(ret.row, "flags", "is_rumor") => ~ret.result.value.is_rumor
          /\ ret.row.author_followers \in {Absent, None}
                => ret.result.value.log_followers = Zero
          /\ ret.row.text \in {Absent, None}
                => (ret.result.value.text_length = Zero /\ ~ret.result.value.has_url)
    /\ ret.op = "prepared" =>
          /\ ~ret.result.raised
          /\ DOMAIN ret.result.value = PostFeatureNames
          /\ \A k \in {"relevance", "stance", "author_verified"} :
                ret.post[k] \in {Absent, None} => ret.result.value[k] = Zero

\* C19: a usefulness request for which no model is resolved (no usable
\* deployed row, no local artifact) is answered with usefulness_score =
\* relevance * strength * credibility of the request, move_toward_truth_prob
\* 0.5 and model_version "heuristic".
C19_HeuristicFallback ==
    (ret.op = "predict_post_usefulness" /\ ret.tier = "none") =>
        /\ ~ret.raised
        /\ ret.value.usefulness_score =
              RMul(RMul(ret.request.relevance, ret.request.strength),
                   ret.request.credibility)
        /\ ret.value.move_toward_truth_prob = Rat(1, 2)
        /\ ret.value.model_version = "heuristic"

\* C19 witness: the request with relevance 0.8, strength 0.6 and
\* credibility 0.9 was answered by the heuristic with score 0.432, while the
\* registry holds a deployed row whose artifact is on another host.
C19_Witness ==
    /\ ret.op = "predict_post_usefulness"
    /\ ret.tier = "none"
    /\ ret.request.relevance = Rat(8, 10)
    /\ ret.request.strength = Rat(6, 10)
    /\ ret.value.usefulness_score = Rat(432, 1000)
    /\ DeployedRecords("post_usefulness") # {}

\* A complete model handle: a model together with the version it was read from.
CompleteHandle(entry) ==
    /\ DOMAIN entry = {"model", "version"}
    /\ entry.model \in 1..(MaxSaves + 1)
    /\ entry.version \in Stems

\* Every cache key holds nothing or one complete entry.
CacheEntriesComplete ==
    \A k \in CacheKeys : _models[k] = None \/ CompleteHandle(_models[k])

\* Every handler that returned from load_model holds None or a complete handle.
ReturnedHandlesComplete ==
    \A h \in Handlers :
        (handlers[h].pc = "done" /\ ~handlers[h].raised) =>
            (handlers[h].value = None \/ CompleteHandle(handlers[h].value))

\* C20: whatever the interleaving of the handlers' first loads of a cache
\* key, every handler leaves load_model with a complete handle (model and
\* version) or with None, every cache key holds nothing or one complete
\* entry, and no handler is handed a partial entry.
C20_ConcurrentFirstLoadsSafe ==
    /\ CacheEntriesComplete
    /\ ReturnedHandlesComplete
    /\ \A h \in Handlers : handlers[h].pc = "done" => ~handlers[h].raised

\* Two handlers missed the cache for the same key, each read the artifact
\* itself, and both returned.
BothLoadedFirst ==
    /\ handlers["h1"].pc = "done" /\ handlers["h2"].pc = "done"
    /\ handlers["h1"].first /\ handlers["h2"].first
    /\ handlers["h1"].value # None /\ handlers["h2"].value # None
    /\ handlers["h1"].version = handlers["h2"].version

\* The instant a timestamp text denotes, in half seconds.
Instant(text) ==
    2 * (text[1] - 48) + (IF text[2] = 46 THEN 1 ELSE 0)

\* The winning outcome's probability a snapshot records.
Recorded(snapshot) ==
    IF "json" \in DOMAIN snapshot.probabilities
    THEN snapshot.probabilities.json.dict[winning_outcome_id]
    ELSE snapshot.probabilities.dict[winning_outcome_id]

\* The snapshots from which prob_before of a post scored at the instant t
\* may be read: the latest ones strictly before t.
LastBefore(t) ==
    LET S == ret.snapshots_df
        earlier == {k \in DOMAIN S : Instant(S[k].timestamp) < t}
    IN {k \in earlier : \A m \in earlier :
            Instant(S[m].timestamp) <= Instant(S[k].timestamp)}

\* The snapshots from which prob_after may be read: the earliest ones at or
\* after t.
FirstAtOrAfter(t) ==
    LET S == ret.snapshots_df
        later == {k \in DOMAIN S : Instant(S[k].timestamp) >= t}
    IN {k \in later : \A m \in later :
            Instant(S[k].timestamp) <= Instant(S[m].timestamp)}

\* value is what a post scored at t gets from the snapshots in from, or the
\* prior 0.5 when there is none.
ReadFrom(value, from) ==
    IF from = {} THEN value = Rat(1, 2)
    ELSE \E k \in from : value = Recorded(ret.snapshots_df[k])

\* Every post with a scoring timestamp carries prob_before and prob_after
\* as read from the snapshots.
RowsFollowSnapshots ==
    \A k \in DOMAIN ret.value :
        LET row == ret.value[k] IN
        row.scored_at # None =>
            /\ ReadFrom(row.prob_before, LastBefore(Instant(row.scored_at.at)))
            /\ ReadFrom(row.prob_after, FirstAtOrAfter(Instant(row.scored_at.at)))

\* C21: for every post with a scoring timestamp, prob_before is the winning
\* outcome's probability in the last snapshot strictly before the scoring
\* time and prob_after the one in the first snapshot at or after it, each
\* 0.5 when there is no such snapshot.
C21_BeforeAndAfter ==
    ret.op = "label_posts_with_truth" => RowsFollowSnapshots

\* The same for markets that have at least one snapshot.
C21_WithSnapshots ==
    (ret.op = "label_posts_with_truth" /\ ret.snapshots_df # <<>>) =>
        RowsFollowSnapshots

\* a > b on floats.
Exceeds(a, b) ==
    a.n * b.d > b.n * a.d

\* C22: in the labeled posts moved_toward_truth is true exactly when
\* prob_after - prob_before is strictly greater than 0 (delta_prob being
\* that difference); a tie, the two 0.5 defaults included, is labeled false.
C22_TiesAreFalse ==
    ret.op = "label_posts_with_truth" =>
        \A k \in DOMAIN ret.value :
            LET row == ret.value[k] IN
            row.moved_toward_truth # Absent =>
                /\ row.moved_toward_truth = Bool(Exceeds(row.prob_after, row.prob_before))
                /\ (row.delta_prob = Zero) = (row.prob_after = row.prob_before)

\* C22 witness: one labeled post tied on two recorded probabilities, one
\* tied on the two defaults, both labeled false.
C22_Witness ==
    /\ ret.op = "label_posts_with_truth"
    /\ Len(ret.value) = 2
    /\ ret.value[1].scored_at # None
    /\ ret.value[1].prob_before = Rat(1, 4)
    /\ ret.value[1].prob_after = Rat(1, 4)
    /\ ret.value[1].moved_toward_truth = Bool(FALSE)
    /\ ret.value[2].scored_at = None
    /\ ret.value[2].prob_before = Rat(1, 2)
    /\ ret.value[2].prob_after = Rat(1, 2)
    /\ ret.value[2].moved_toward_truth = Bool(FALSE)

\* C23: for a non-empty post set and an empty snapshot set every returned
\* post has prob_before = 0.5 and prob_after = 0.5 and carries no
\* moved_toward_truth label.
C23_NoSnapshotsAllDefault ==
    (ret.op = "label_posts_with_truth" /\ ret.posts_df # <<>>
        /\ ret.snapshots_df = <<>>) =>
        /\ Len(ret.value) = Len(ret.posts_df)
        /\ \A k \in DOMAIN ret.value :
              /\ ret.value[k].prob_before = Rat(1, 2)
              /\ ret.value[k].prob_after = Rat(1, 2)
              /\ ret.value[k].moved_toward_truth = Absent

\* The part of C23 about the label: no post of a market without snapshots
\* carries one.
NoSnapshotsNoLabel ==
    (ret.op = "label_posts_with_truth" /\ ret.snapshots_df = <<>>) =>
        \A k \in DOMAIN ret.value : ret.value[k].moved_toward_truth = Absent

\* C24: train_correction_model returns the model of the earliest fold whose
\* validation RMSE is the minimum over the folds, reports that minimum as
\* best_rmse, and returns a model whenever a fold was trained.
C24_LowestRmseFold ==
    ret.op = "train_correction_model" =>
        LET rmses == ret.rmses
            best == ret.value.model.booster
        IN /\ ret.value.model # None
           /\ best \in DOMAIN rmses
           /\ \A k \in DOMAIN rmses : rmses[best] <= rmses[k]
           /\ \A k \in DOMAIN rmses : rmses[k] = rmses[best] => best <= k
           /\ ret.value.best_rmse = Finite(rmses[best])

\* C24 witness: the minimum is reached by the second and the third of three
\* folds and the second fold's model is returned.
C24_Witness ==
    /\ ret.op = "train_correction_model"
    /\ Len(ret.rmses) = 3
    /\ ret.rmses[1] > ret.rmses[2]
    /\ ret.rmses[3] = ret.rmses[2]
    /\ ret.value.model = Booster(2)

\* C25: train_post_usefulness_model returns the model of a fold whose
\* validation AUC is the maximum over the folds, reports that maximum as
\* best_auc, and returns a model whenever a fold was trained, whatever the
\* folds' AUC values in [0, 1].
C25_HighestAucFold ==
    ret.op = "train_post_usefulness_model" =>
        LET aucs == ret.aucs
            best == ret.value.model.booster
        IN /\ ret.value.model # None
           /\ best \in DOMAIN aucs
           /\ \A k \in DOMAIN aucs : aucs[k] <= aucs[best]
           /\ ret.value.best_auc = aucs[best]

\* The same when some fold has an AUC above 0.
C25_SomeFoldAboveZero ==
    (ret.op = "train_post_usefulness_model"
        /\ \E k \in DOMAIN ret.aucs : ret.aucs[k] > 0) =>
        LET aucs == ret.aucs
            best == ret.value.model.booster
        IN /\ ret.value.model # None
           /\ best \in DOMAIN aucs
           /\ \A k \in DOMAIN aucs : aucs[k] <= aucs[best]
           /\ ret.value.best_auc = aucs[best]

\* C26: a cache entry, once present, is neither removed nor replaced by a
\* request or a save, and a load_model call with its key returns it; a
\* newer artifact saved after the first latest-lookup is therefore not
\* returned under name:latest.
C26_CacheEntriesStay ==
    [][~Restart =>
          /\ \A k \in CacheKeys : _models[k] # None => _models'[k] = _models[k]
          /\ \A v \in Versions \cup {NoVersion} :
                (ret'.op = "load_model" /\ _models[CacheKey(GB, v)] # None
                 /\ LoadModel(GB, v))
                => (~ret'.raised /\ ret'.value = _models[CacheKey(GB, v)])]_vars

\* C26 witness: a version-less load_model call returned the cached entry
\* while a loadable artifact written after the cached one is in the store.
C26_Witness ==
    /\ ret.op = "load_model"
    /\ ~ret.raised
    /\ ret.value # None
    /\ ret.value = _models[<<GB, "latest">>]
    /\ \E v \in ModelFiles(GB) :
          /\ files[<<GB, v>>].loadable
          /\ files[<<GB, v>>].mtime > ret.value.model

\* The artifact a load_model call for the version looks up: the named file,
\* or the most recently modified one.
LookedUp(version) ==
    <<GB, IF version = NoVersion THEN NewestVersion(GB) ELSE version>>

\* C27: a call that returns absent leaves the cache as it was and a save
\* does not touch the cache, so once an artifact matching the key is in the
\* store the next call with the key (nothing being cached under it) reads
\* and returns that artifact, without a restart.
C27_FailureNotCached ==
    [][/\ \A h \in Handlers, v \in HandlerVersions :
            (ret'.op = "load_model" /\ Call(h, GB, v)) =>
               /\ (~ret'.raised /\ ret'.value = None) => _models' = _models
               /\ (/\ _models[CacheKey(GB, v)] = None
                   /\ GB \in dirs
                   /\ (v = NoVersion => ModelFiles(GB) # {})
                   /\ files[LookedUp(v)].exists
                   /\ files[LookedUp(v)].loadable)
                  => /\ ~ret'.raised
                     /\ ret'.value = [model |-> files[LookedUp(v)].blob,
                                      version |-> LookedUp(v)[2]]
       /\ ret'.op = "save_model" => _models' = _models]_vars

\* C27 witness: one handler's call returned absent, the other handler's
\* call with the same key returned an artifact that is in the store; the
\* process was not restarted in between (both results are still held).
C27_Witness ==
    /\ handlers["h1"].pc = "done" /\ handlers["h2"].pc = "done"
    /\ handlers["h1"].version = handlers["h2"].version
    /\ ~handlers["h1"].raised /\ handlers["h1"].value = None
    /\ ~handlers["h2"].raised /\ handlers["h2"].value # None
    /\ handlers["h2"].first
    /\ files[<<GB, handlers["h2"].value.version>>].blob = handlers["h2"].value.model

\* C28: every registry record written by a save_model run on this host
\* names a path at which an artifact file exists, whatever saves and
\* registry failures came before.
C28_RegisteredArtifactExists ==
    \A r \in registry :
        r.path.host = "local" => files[<<r.path.name, r.path.version>>].exists

\* C28 witness: a save whose file write failed has just ended, no record
\* carries its model_id, and a record of an earlier save is registered.
C28_Witness ==
    /\ ret.op = "save_model"
    /\ ret.raised
    /\ \E r \in registry : r.path.host = "local"
    /\ \A r \in registry : r.model_id <= clock
    /\ \E path \in Paths : files[path].exists /\ ~files[path].loadable

\* What C29 says of a response to the request p whose try block ended as
\* out says.
VersionAndConfidence(p, out) ==
    /\ (ret'.value.model_version = "none") = (ret'.model_info = None)
    /\ (ret'.value.confidence = ConfApplied) = (ret'.model_info # None /\ out.ok)
    /\ ret'.value.confidence \in {ConfApplied, Zero}
    /\ ret'.value.confidence = Zero
          => ret'.value.probabilities_corrected = AsFloats(p)

C29_OfReturnedResponses ==
    [][\A p \in RequestProbs, reach \in BOOLEAN, out \in ModelOutcomes :
          (ret'.op = "predict_correction" /\ ~ret'.raised
           /\ PredictCorrection(p, reach, out))
          => VersionAndConfidence(p, out)]_vars

====
